---------------------------- MODULE Spec2Model ----------------------------
(***************************************************************************)
(* Waypoint planners (autonomous/mission.py MissionPlanner and             *)
(* test_missions/waypoint_sim.py WaypointMissionPlanner) and the grid      *)
(* flight pattern of the real-estate-drone repository.                     *)
(*                                                                         *)
(* Headings are Python floats in the source.  They are kept here in        *)
(* thousandths of a degree (fixed point): an integer heading h of the      *)
(* source is h * Milli, and math.degrees(math.atan2(dy, dx)) is the value  *)
(* rounded to the nearest thousandth.  int(r) of a non-negative float r is *)
(* r \div Milli.  Distances are whole centimetres.                         *)
(***************************************************************************)
EXTENDS Integers, Sequences, FiniteSets, TLC

VARIABLES
    planner,          \* which class was constructed
    grid_size, grid_spacing,       \* fields of GridFlightMission
    overlap,          \* self.overlap, in eighths
    photo_spacing, photos_per_cell,
    row, col,         \* loop variables row, col of the grid sweep
    micro_i, micro_j, \* loop variables i, j of the photos within a cell
    radius, points,   \* fields of OrbitalFlightMission
    variant,          \* which of the two OrbitalFlightMission sources runs
    orbit_i,          \* loop variable i of the orbit
    waypoints,        \* self.waypoints
    pc,               \* position inside execute_mission
    i,                \* enumerate index of the loop (1-based)
    current_x, current_y, current_z,   \* locals of execute_mission
    current_heading,  \* local current_heading, thousandths of a degree
    self_pos,         \* self.current_pos (WaypointMissionPlanner)
    self_heading,     \* self.current_heading (WaypointMissionPlanner)
    flying,           \* self.flying (WaypointMissionPlanner)
    simulator_mode,   \* self.tello_wrapper.simulator_mode
    photo_count,      \* self.photo_count
    cmds,             \* every command handed to the driver, in order
    result,           \* return value of execute_mission: "none" until it returns
    raised,           \* the step at which an exception was raised, "none" if none
    connected,        \* self.connected of a TelloWrapper
    airborne,         \* whether the vehicle behind the driver is in the air
    last_call,        \* the last call of a TelloWrapper primitive and its outcome
    drone,            \* self.drone of a TelloWrapper: the class of its driver object
    battery,          \* local battery of execute_mission: the reading, if one was taken
    action_raised,    \* the waypoints (by index) whose custom action raised
    has_driver,       \* self.tello_wrapper (self.tello) is not None
    emergency_stop,   \* config['tello']['emergency_stop']
    interrupts,       \* KeyboardInterrupts delivered to a mission runner so far
    exit_code,        \* what a mission runner handed to sys.exit, "none" before
    fast_mode,        \* DRONE_FAST_MODE is "1" in the environment
    side_length,      \* self.side_length of SquareFlightMission
    corners_visited,  \* self.corners_visited of SquareFlightMission
    codes             \* the exit codes seen so far, by how the mission ended

\* the state of a waypoint planner and of its execute_mission
pvars == <<planner, waypoints, pc, i, current_x, current_y, current_z,
           current_heading, self_pos, self_heading, flying, simulator_mode,
           photo_count, cmds, result, raised>>

\* the fields and loop variables only the grid mission has
gridvars == <<grid_size, grid_spacing, overlap, photo_spacing,
              photos_per_cell, row, col, micro_i, micro_j>>

\* the fields and locals only the waypoint planners have
wpvars == <<waypoints, i, current_x, current_y, current_z, current_heading,
            self_pos, self_heading, flying>>

\* the fields and loop variable only the orbital mission has
orbvars == <<radius, points, variant, orbit_i>>

\* the state of a TelloWrapper used on its own
twvars == <<connected, airborne, last_call, drone>>

\* the state of a mission runner, of the environment and of SquareFlightMission
runvars == <<emergency_stop, interrupts, exit_code, fast_mode, side_length,
             corners_visited, codes>>

othervars == <<orbvars, twvars, battery, action_raised, has_driver, runvars>>

vars == <<pvars, gridvars, othervars>>

----------------------------------------------------------------------------
(* Bounds of the model *)

MaxWaypoints == 2

(* Program constants *)

\* resolution of the fixed-point headings: thousandths of a degree
Milli == 10 * 10 * 10
FullTurn == 360 * Milli
HalfTurn == 180 * Milli
DeadZone == 20
MinBattery == 30
TakeoffAltitude == 100
ReturnAltitude == 20
NoAction == "None"

\* heading=None, and a heading given as a number
NoHeading == <<>>
HeadingOf(h) == <<h>>

(* Inputs of add_waypoint explored by the model.  HeadingInputs holds one  *)
(* value outside [0,360): add_waypoint stores whatever it is given.        *)
PositionInputs == {<<0, 0>>, <<0, 20>>, <<80, 20>>, <<0, -80>>}
ZInputs == {20, 100}
HeadingInputs == {NoHeading, HeadingOf(90), HeadingOf(360)}
BatteryReadings == {20, 50}

Waypoint(x, y, z, heading, take_photo, action) ==
    [x |-> x, y |-> y, z |-> z, heading |-> heading,
     take_photo |-> take_photo, action |-> action]

----------------------------------------------------------------------------
(* Arithmetic of the source *)

Abs(n) == IF n < 0 THEN -n ELSE n

RECURSIVE GCD(_, _)
GCD(a, b) == IF b = 0 THEN a ELSE GCD(b, a % b)

RECURSIVE SqrtSearch(_, _, _)
SqrtSearch(n, lo, hi) ==
    IF lo >= hi THEN lo
    ELSE LET mid == (lo + hi + 1) \div 2
         IN  IF mid * mid <= n THEN SqrtSearch(n, mid, hi)
                               ELSE SqrtSearch(n, lo, mid - 1)

\* int(math.sqrt(n)) for a non-negative integer n
IntSqrt(n) == SqrtSearch(n, 0, n)

\* a threshold of zero in place of the 20 cm
BeyondOrigin(x, y) == x * x + y * y > 0

\* math.sqrt(x**2 + y**2) > 20, on integers
BeyondDeadZone(x, y) == x * x + y * y > DeadZone * DeadZone

\* math.degrees(math.atan(a / b)) for coprime a, b >= 1, in thousandths
AtanTable ==
    (<<1, 1>> :> 45000) @@ (<<1, 2>> :> 26565) @@ (<<1, 3>> :> 18435) @@
    (<<1, 4>> :> 14036) @@ (<<1, 5>> :> 11310) @@ (<<1, 6>> :> 9462)  @@
    (<<2, 1>> :> 63435) @@ (<<2, 3>> :> 33690) @@ (<<2, 5>> :> 21801) @@
    (<<3, 1>> :> 71565) @@ (<<3, 2>> :> 56310) @@ (<<3, 4>> :> 36870) @@
    (<<3, 5>> :> 30964) @@ (<<4, 1>> :> 75964) @@ (<<4, 3>> :> 53130) @@
    (<<4, 5>> :> 38660) @@ (<<5, 1>> :> 78690) @@ (<<5, 2>> :> 68199) @@
    (<<5, 3>> :> 59036) @@ (<<5, 4>> :> 51340) @@ (<<5, 6>> :> 39806) @@
    (<<6, 1>> :> 80538) @@ (<<6, 5>> :> 50194)

\* math.degrees(math.atan2(dy, dx)), in thousandths, in (-180000, 180000]
ATan2Deg(dy, dx) ==
    IF dx = 0 THEN (IF dy > 0 THEN 90 * Milli
                    ELSE IF dy < 0 THEN -90 * Milli ELSE 0)
    ELSE IF dy = 0 THEN (IF dx > 0 THEN 0 ELSE HalfTurn)
    ELSE LET g == GCD(Abs(dy), Abs(dx))
             a == AtanTable[<<Abs(dy) \div g, Abs(dx) \div g>>]
         IN  IF dx > 0 THEN (IF dy > 0 THEN a ELSE -a)
             ELSE (IF dy > 0 THEN HalfTurn - a ELSE a - HalfTurn)

\* target_heading of the move to a waypoint
TargetHeading(dx, dy) ==
    IF dx = 0 THEN (IF dy > 0 THEN 90 * Milli ELSE 270 * Milli)
    ELSE LET a == ATan2Deg(dy, dx)
         IN  IF a < 0 THEN a + FullTurn ELSE a

\* rotation = (target - current) % 360; if rotation > 180: rotation -= 360
SignedRotation(target, current) ==
    LET r == (target - current) % FullTurn
    IN  IF r > HalfTurn THEN r - FullTurn ELSE r

\* home_heading of WaypointMissionPlanner
HomeHeading(x, y) == (ATan2Deg(-y, -x) + FullTurn) % FullTurn

\* return_heading of MissionPlanner
ReturnHeading(x, y) == (HalfTurn + ATan2Deg(y, x)) % FullTurn

\* the verb the planner calls on the driver for a primitive
DriverVerb(prim, sim) ==
    IF sim
    THEN CASE prim = "up" -> "fly_up"
           [] prim = "down" -> "fly_down"
           [] prim = "forward" -> "fly_forward"
           [] prim = "cw" -> "yaw_right"
           [] prim = "ccw" -> "yaw_left"
           [] OTHER -> prim
    ELSE CASE prim = "up" -> "move_up"
           [] prim = "down" -> "move_down"
           [] prim = "forward" -> "move_forward"
           [] prim = "cw" -> "rotate_clockwise"
           [] prim = "ccw" -> "rotate_counter_clockwise"
           [] OTHER -> prim

ClockwiseVerbs == {"yaw_right", "rotate_clockwise"}
CounterClockwiseVerbs == {"yaw_left", "rotate_counter_clockwise"}
RotateVerbs == ClockwiseVerbs \cup CounterClockwiseVerbs
ForwardVerbs == {"fly_forward", "move_forward"}

----------------------------------------------------------------------------
(* State after construction: MissionPlanner.__init__ or                    *)
(* WaypointMissionPlanner.__init__                                         *)

\* no OrbitalFlightMission object exists
NoOrbit == radius = 0 /\ points = 0 /\ variant = "none" /\ orbit_i = 0

\* no primitive of a TelloWrapper called yet
\* sleeps: durations are in milliseconds

FastFloor == 50

Larger(a, b) == IF a > b THEN a ELSE b

\* fast_sleep that ignores DRONE_FAST_MODE
SlowSleep(ms, fast) == ms

\* the time fast_sleep(seconds) sleeps: max(0.05, seconds * 0.25) in fast
\* mode, seconds otherwise
FastSleep(ms, fast) ==
    IF fast THEN Larger(FastFloor, (ms * 25) \div 100) ELSE ms

\* the time time.sleep(seconds) sleeps
TimeSleep(ms) == ms

\* a takeoff that does not sleep when the vehicle is in the air already
PrimitiveSleepOnce(prim, ret, fast) ==
    CASE prim = "takeoff" /\ ret = "True" /\ ~airborne -> FastSleep(Milli, fast)
      [] prim = "land" /\ ret = "True" -> TimeSleep(2 * Milli)
      [] prim = "take_photo" /\ ~simulator_mode -> TimeSleep(500)
      [] OTHER -> 0

\* the time a TelloWrapper primitive sleeps before it returns ret:
\* takeoff "fast_sleep(1)" and land "time.sleep(2)" after the driver call
\* returned, take_photo "time.sleep(0.5)" on the drone; no other primitive
\* sleeps
PrimitiveSleep(prim, ret, fast) ==
    CASE prim = "takeoff" /\ ret = "True" -> FastSleep(Milli, fast)
      [] prim = "land" /\ ret = "True" -> TimeSleep(2 * Milli)
      [] prim = "take_photo" /\ ~simulator_mode -> TimeSleep(500)
      [] OTHER -> 0

NoCall ==
    [prim |-> "none", conn |-> FALSE, air |-> FALSE, sent |-> <<>>,
     ret |-> "none", slept |-> 0]

NoWrapper ==
    /\ connected = FALSE /\ airborne = FALSE /\ last_call = NoCall
    /\ drone = "none"

\* how a run of a mission runner can end once it called execute_mission
Outcomes == {"success", "failed", "interrupt", "exception"}

NoCodes == [o \in Outcomes |-> {}]

\* no mission runner and no SquareFlightMission; normal timing
NoRunner ==
    /\ codes = NoCodes
    /\ emergency_stop = TRUE
    /\ interrupts = 0
    /\ exit_code = "none"
    /\ fast_mode = FALSE
    /\ side_length = 0
    /\ corners_visited = 0

\* self.simulator_mode: config['simulator']['enabled'], unless the
\* simulator package is missing
SimulatorMode(enabled, available) == enabled /\ available

\* the class of the driver object __init__ constructs
DriverClass(sim) == IF sim THEN "SimulatedDrone" ELSE "RealTello"

\* the command DroneController.emergency_land issues
EmergencyVerb ==
    IF simulator_mode THEN "land"
    ELSE IF emergency_stop THEN "emergency" ELSE "land"

\* the local battery of execute_mission before it is assigned, and after
NoReading == <<>>
ReadingOf(b) == <<b>>

PlannerInit(classes) ==
    /\ planner \in classes
    /\ waypoints = <<>>
    /\ pc = "idle"
    /\ i = 0
    /\ current_x = 0 /\ current_y = 0 /\ current_z = 0
    /\ current_heading = 0
    /\ self_pos = <<0, 0, 0>>
    /\ self_heading = 0
    /\ flying = FALSE
    /\ simulator_mode = FALSE
    /\ photo_count = 0
    /\ cmds = <<>>
    /\ result = "none"
    /\ raised = "none"
    /\ grid_size = 0 /\ grid_spacing = 0 /\ overlap = 0
    /\ photo_spacing = 0 /\ photos_per_cell = 0
    /\ row = 0 /\ col = 0 /\ micro_i = 0 /\ micro_j = 0
    /\ NoOrbit
    /\ NoWrapper
    /\ battery = NoReading
    /\ action_raised = {}
    /\ has_driver = FALSE
    /\ NoRunner

Init == PlannerInit({"MissionPlanner", "WaypointMissionPlanner"})

IsWaypointPlanner == planner = "WaypointMissionPlanner"

\* one call on the driver, as recorded in cmds: the verb and its argument,
\* the step of execute_mission that made it (with the waypoint index inside
\* the loop), whether the driver accepted it, and for a rotation the value
\* of the local variable rotation it was computed from
Cmd(prim, arg, step, ok) ==
    [verb |-> DriverVerb(prim, simulator_mode), arg |-> arg, step |-> step,
     wp |-> IF step \in {"alt", "rot", "fwd", "hdg"} THEN i ELSE 0, ok |-> ok,
     rotation |-> 0]

\* int(rotation) of a non-negative rotation
IntDegrees(rotation) == rotation \div Milli

\* a rotation command: clockwise for a positive rotation, else counter-clockwise
RotateCmd(rotation, step, ok) ==
    IF rotation > 0
    THEN [Cmd("cw", IntDegrees(rotation), step, ok) EXCEPT !.rotation = rotation]
    ELSE [Cmd("ccw", IntDegrees(-rotation), step, ok) EXCEPT !.rotation = rotation]

\* the driver call raised: control passes to the except clause
Raise(cmd, step) ==
    /\ cmds' = Append(cmds, cmd)
    /\ raised' = step
    /\ pc' = "except"

\* dx, dy, dz of the loop body
Dx == waypoints[i].x - current_x
Dy == waypoints[i].y - current_y
Dz == waypoints[i].z - current_z

\* the guard left out
AlwaysMoves(dx, dy) == TRUE

\* if dx != 0 or dy != 0
NeedsMove(dx, dy) == dx # 0 \/ dy # 0

----------------------------------------------------------------------------
(* add_waypoint *)

AddWaypoint ==
    /\ pc = "idle"
    /\ Len(waypoints) < MaxWaypoints
    /\ \E p \in PositionInputs, z \in ZInputs, h \in HeadingInputs :
          waypoints' = Append(waypoints, Waypoint(p[1], p[2], z, h, FALSE, NoAction))
    /\ UNCHANGED <<planner, pc, i, current_x, current_y, current_z,
                   current_heading, self_pos, self_heading, flying,
                   simulator_mode, photo_count, cmds, result, raised>>
    /\ UNCHANGED gridvars
    /\ UNCHANGED othervars

(* execute_mission: the empty-mission check *)

\* an execute_mission that never calls connect_drone
AfterCheckNoConnect == "battery"

\* "if not self.tello_wrapper: self.connect_drone()"
AfterCheck == IF has_driver THEN "battery" ELSE "connect"

\* an execute_mission without the check for an empty mission
ExecuteMissionUnchecked ==
    /\ pc = "idle"
    /\ pc' = AfterCheck
    /\ UNCHANGED <<planner, waypoints, i, current_x, current_y, current_z,
                   current_heading, self_pos, self_heading, flying,
                   simulator_mode, photo_count, cmds, result, raised>>
    /\ UNCHANGED gridvars
    /\ UNCHANGED othervars

ExecuteMission ==
    /\ pc = "idle"
    /\ IF waypoints = <<>>
       THEN pc' = "done" /\ result' = "False"
       ELSE pc' = AfterCheck /\ result' = result
    /\ UNCHANGED <<planner, waypoints, i, current_x, current_y, current_z,
                   current_heading, self_pos, self_heading, flying,
                   simulator_mode, photo_count, cmds, raised>>
    /\ UNCHANGED gridvars
    /\ UNCHANGED othervars

(* connect_drone *)

\* the body of connect_drone: the driver object is created, then connected.
\* WaypointMissionPlanner: TelloWrapper.connect catches a driver failure and
\* returns False, which connect_drone ignores; starting the video stream of
\* the real drone may raise.  MissionPlanner: Tello.connect() may raise.
\* raises tells whether an exception left connect_drone.
ConnectBody(raises) ==
    /\ has_driver' = TRUE
    /\ \E sim \in BOOLEAN, conn \in BOOLEAN, ok \in BOOLEAN :
          /\ raises = ~(IF IsWaypointPlanner THEN sim \/ ok ELSE ok)
          /\ IF IsWaypointPlanner
             THEN /\ simulator_mode' = sim
                  /\ drone' = DriverClass(sim)
                  /\ connected' = (sim \/ conn)
             ELSE /\ simulator_mode' = FALSE
                  /\ drone' = DriverClass(FALSE)
                  /\ connected' = ok
                  /\ conn = ok
    /\ UNCHANGED <<planner, waypoints, i, current_x, current_y, current_z,
                   current_heading, self_pos, self_heading, flying,
                   photo_count, cmds, result>>
    /\ UNCHANGED gridvars
    /\ UNCHANGED <<orbvars, airborne, last_call, battery, action_raised,
                   runvars>>

\* connect_drone called by execute_mission, inside its try
ConnectDrone ==
    /\ pc = "connect"
    /\ \E raises \in BOOLEAN :
          /\ ConnectBody(raises)
          /\ pc' = IF raises THEN "except" ELSE "battery"
          /\ raised' = IF raises THEN "connect" ELSE raised

\* connect_drone called by the user of the planner before execute_mission;
\* an exception goes to that caller and execute_mission is never called
ConnectBeforehand ==
    /\ pc = "idle"
    /\ ~has_driver
    /\ \E raises \in BOOLEAN :
          /\ ConnectBody(raises)
          /\ pc' = IF raises THEN "done" ELSE "idle"
          /\ raised' = IF raises THEN "connect" ELSE raised

(* the battery precheck *)

\* a precheck that lets every reading pass
NeverLow(reading) == FALSE

\* "if battery < min_battery"
LowBattery(reading) == reading < MinBattery

BatteryCheck ==
    /\ pc = "battery"
    /\ IF IsWaypointPlanner /\ simulator_mode
       THEN pc' = "takeoff" /\ result' = result /\ battery' = battery
       ELSE \E reading \in BatteryReadings :
               /\ battery' = ReadingOf(reading)
               /\ IF LowBattery(reading)
                  THEN pc' = "done" /\ result' = "False"
                  ELSE pc' = "takeoff" /\ result' = result
    /\ UNCHANGED <<planner, waypoints, i, current_x, current_y, current_z,
                   current_heading, self_pos, self_heading, flying,
                   simulator_mode, photo_count, cmds, raised>>
    /\ UNCHANGED gridvars
    /\ UNCHANGED <<orbvars, twvars, action_raised, has_driver, runvars>>

(* takeoff and the initialisation of the dead-reckoned pose *)

Takeoff ==
    /\ pc = "takeoff"
    /\ \E ok \in BOOLEAN :
          IF IsWaypointPlanner
          THEN \* TelloWrapper.takeoff connects if need be and catches a
               \* driver failure; the planner ignores its return value
               /\ cmds' = Append(cmds, Cmd("takeoff", 0, "takeoff", ok))
               /\ flying' = TRUE
               /\ self_pos' = <<self_pos[1], self_pos[2], TakeoffAltitude>>
               /\ current_x' = 0 /\ current_y' = 0
               /\ current_z' = TakeoffAltitude
               /\ current_heading' = 0
               /\ i' = 1
               /\ pc' = "alt"
               /\ raised' = raised
          ELSE /\ flying' = flying
               /\ self_pos' = self_pos
               /\ IF ok
                  THEN /\ cmds' = Append(cmds, Cmd("takeoff", 0, "takeoff", TRUE))
                       /\ current_x' = 0 /\ current_y' = 0 /\ current_z' = 0
                       /\ current_heading' = 0
                       /\ i' = 1
                       /\ pc' = "alt"
                       /\ raised' = raised
                  ELSE /\ Raise(Cmd("takeoff", 0, "takeoff", FALSE), "takeoff")
                       /\ UNCHANGED <<current_x, current_y, current_z,
                                      current_heading, i>>
    /\ UNCHANGED <<planner, waypoints, self_heading, simulator_mode,
                   photo_count, result>>
    /\ UNCHANGED gridvars
    /\ UNCHANGED othervars

(* loop body, "Adjust height first" *)

AdjustHeight ==
    /\ pc = "alt"
    /\ LET dz == Dz
           cmd(ok) == IF dz > 0 THEN Cmd("up", dz, "alt", ok)
                                ELSE Cmd("down", -dz, "alt", ok)
       IN  IF dz # 0
           THEN \E ok \in BOOLEAN :
                   IF ok
                   THEN /\ cmds' = Append(cmds, cmd(TRUE))
                        /\ pc' = "rot"
                        /\ raised' = raised
                        /\ IF IsWaypointPlanner
                           THEN /\ self_pos' = <<self_pos[1], self_pos[2],
                                                 self_pos[3] + dz>>
                                /\ current_z' = current_z + dz
                           ELSE UNCHANGED <<self_pos, current_z>>
                   ELSE /\ Raise(cmd(FALSE), "alt")
                        /\ UNCHANGED <<self_pos, current_z>>
           ELSE /\ pc' = "rot"
                /\ UNCHANGED <<cmds, raised, self_pos, current_z>>
    /\ UNCHANGED <<planner, waypoints, i, current_x, current_y,
                   current_heading, self_heading, flying, simulator_mode,
                   photo_count, result>>
    /\ UNCHANGED gridvars
    /\ UNCHANGED othervars

(* loop body, "Rotate to appropriate heading for movement if needed" *)

RotateToTarget ==
    /\ pc = "rot"
    /\ LET target == TargetHeading(Dx, Dy)
           rotation == SignedRotation(target, current_heading)
       IN  IF NeedsMove(Dx, Dy) /\ rotation # 0
           THEN \E ok \in BOOLEAN :
                   IF ok
                   THEN /\ cmds' = Append(cmds, RotateCmd(rotation, "rot", TRUE))
                        /\ current_heading' = target
                        /\ self_heading' = IF IsWaypointPlanner THEN target ELSE self_heading
                        /\ pc' = "fwd"
                        /\ raised' = raised
                   ELSE /\ Raise(RotateCmd(rotation, "rot", FALSE), "rot")
                        /\ UNCHANGED <<current_heading, self_heading>>
           ELSE /\ pc' = "fwd"
                /\ UNCHANGED <<cmds, raised, current_heading, self_heading>>
    /\ UNCHANGED <<planner, waypoints, i, current_x, current_y, current_z,
                   self_pos, flying, simulator_mode, photo_count,
                   result>>
    /\ UNCHANGED gridvars
    /\ UNCHANGED othervars

(* loop body, "Calculate distance to move" and "Update current position" *)

MoveForward ==
    /\ pc = "fwd"
    /\ LET wp == waypoints[i]
           distance == IntSqrt(Dx * Dx + Dy * Dy)
           arrive == /\ current_x' = wp.x
                     /\ current_y' = wp.y
                     /\ current_z' = wp.z
       IN  IF NeedsMove(Dx, Dy)
           THEN \E ok \in BOOLEAN :
                   IF ok
                   THEN /\ cmds' = Append(cmds, Cmd("forward", distance, "fwd", TRUE))
                        /\ arrive
                        /\ self_pos' = IF IsWaypointPlanner THEN <<wp.x, wp.y, self_pos[3]>>
                                                ELSE self_pos
                        /\ pc' = "hdg"
                        /\ raised' = raised
                   ELSE /\ Raise(Cmd("forward", distance, "fwd", FALSE), "fwd")
                        /\ UNCHANGED <<current_x, current_y, current_z, self_pos>>
           ELSE /\ pc' = "hdg"
                /\ IF IsWaypointPlanner
                   THEN current_z' = wp.z /\ UNCHANGED <<current_x, current_y>>
                   ELSE arrive
                /\ UNCHANGED <<cmds, raised, self_pos>>
    /\ UNCHANGED <<planner, waypoints, i, current_heading, self_heading,
                   flying, simulator_mode, photo_count, result>>
    /\ UNCHANGED gridvars
    /\ UNCHANGED othervars

(* loop body, "Adjust to specific heading if requested" *)

\* the rotation issued but the heading not recorded
AdjustHeadingUntracked ==
    /\ pc = "hdg"
    /\ LET wp == waypoints[i]
           rotation == SignedRotation(wp.heading[1] * Milli, current_heading)
       IN  IF wp.heading # NoHeading /\ wp.heading[1] * Milli # current_heading
           THEN \E ok \in BOOLEAN :
                   IF ok
                   THEN /\ cmds' = Append(cmds, RotateCmd(rotation, "hdg", TRUE))
                        /\ pc' = "photo"
                        /\ raised' = raised
                   ELSE Raise(RotateCmd(rotation, "hdg", FALSE), "hdg")
           ELSE /\ pc' = "photo"
                /\ UNCHANGED <<cmds, raised>>
    /\ UNCHANGED <<planner, waypoints, i, current_x, current_y, current_z,
                   current_heading, self_heading, self_pos, flying,
                   simulator_mode, photo_count, result>>
    /\ UNCHANGED gridvars
    /\ UNCHANGED othervars

AdjustHeading ==
    /\ pc = "hdg"
    /\ LET wp == waypoints[i]
           rotation == SignedRotation(wp.heading[1] * Milli, current_heading)
       IN  IF wp.heading # NoHeading /\ wp.heading[1] * Milli # current_heading
           THEN \E ok \in BOOLEAN :
                   IF ok
                   THEN /\ cmds' = Append(cmds, RotateCmd(rotation, "hdg", TRUE))
                        /\ current_heading' = wp.heading[1] * Milli
                        /\ self_heading' = IF IsWaypointPlanner THEN wp.heading[1] * Milli
                                                    ELSE self_heading
                        /\ pc' = "photo"
                        /\ raised' = raised
                   ELSE /\ Raise(RotateCmd(rotation, "hdg", FALSE), "hdg")
                        /\ UNCHANGED <<current_heading, self_heading>>
           ELSE /\ pc' = "photo"
                /\ UNCHANGED <<cmds, raised, current_heading, self_heading>>
    /\ UNCHANGED <<planner, waypoints, i, current_x, current_y, current_z,
                   self_pos, flying, simulator_mode, photo_count,
                   result>>
    /\ UNCHANGED gridvars
    /\ UNCHANGED othervars

(* loop body, "Take photo if requested": take_photo catches its own errors *)

\* a loop body that ends with the photo and never runs the custom action
PhotoEndsWaypoint ==
    /\ pc = "photo"
    /\ IF waypoints[i].take_photo
       THEN \E captured \in BOOLEAN :
               photo_count' = IF captured THEN photo_count + 1 ELSE photo_count
       ELSE photo_count' = photo_count
    /\ i' = i + 1
    /\ pc' = IF i < Len(waypoints) THEN "alt" ELSE "rtl"
    /\ UNCHANGED <<planner, waypoints, current_x, current_y, current_z,
                   current_heading, self_pos, self_heading, flying,
                   simulator_mode, cmds, result, raised>>
    /\ UNCHANGED gridvars
    /\ UNCHANGED othervars

TakePhoto ==
    /\ pc = "photo"
    /\ IF waypoints[i].take_photo
       THEN \E captured \in BOOLEAN :
               photo_count' = IF captured THEN photo_count + 1 ELSE photo_count
       ELSE photo_count' = photo_count
    /\ pc' = "action"
    /\ UNCHANGED <<planner, waypoints, i, current_x, current_y, current_z,
                   current_heading, self_pos, self_heading, flying,
                   simulator_mode, cmds, result, raised>>
    /\ UNCHANGED gridvars
    /\ UNCHANGED othervars

(* loop body, "Execute custom action if provided": an exception of the     *)
(* action is caught; then the next iteration, or the return to launch      *)

\* what calling waypoint['action'] does: None is not called, "returns"
\* returns and "raises" raises an exception; neither touches the driver
ActionRaises(n) == waypoints[n].action = "raises"

\* a loop body with no try around the call of the action
CustomActionUncaught ==
    /\ pc = "action"
    /\ IF ActionRaises(i)
       THEN /\ action_raised' = action_raised \cup {i}
            /\ pc' = "except"
            /\ raised' = "action"
            /\ i' = i
       ELSE /\ action_raised' = action_raised
            /\ i' = i + 1
            /\ pc' = IF i < Len(waypoints) THEN "alt" ELSE "rtl"
            /\ raised' = raised
    /\ UNCHANGED <<planner, waypoints, current_x, current_y, current_z,
                   current_heading, self_pos, self_heading, flying,
                   simulator_mode, photo_count, cmds, result>>
    /\ UNCHANGED gridvars
    /\ UNCHANGED <<orbvars, twvars, battery, has_driver, runvars>>

CustomAction ==
    /\ pc = "action"
    /\ action_raised' = IF ActionRaises(i) THEN action_raised \cup {i}
                        ELSE action_raised
    /\ i' = i + 1
    /\ pc' = IF i < Len(waypoints) THEN "alt" ELSE "rtl"
    /\ UNCHANGED <<planner, waypoints, current_x, current_y, current_z,
                   current_heading, self_pos, self_heading, flying,
                   simulator_mode, photo_count, cmds, result,
                   raised>>
    /\ UNCHANGED gridvars
    /\ UNCHANGED <<orbvars, twvars, battery, has_driver, runvars>>

(* return to launch: the rotation towards home *)

ReturnRotate ==
    /\ pc = "rtl"
    /\ LET home == IF IsWaypointPlanner THEN HomeHeading(current_x, current_y)
                            ELSE ReturnHeading(current_x, current_y)
           rotation == SignedRotation(home, current_heading)
           entered == IF IsWaypointPlanner THEN BeyondDeadZone(current_x, current_y)
                               ELSE current_z > ReturnAltitude
       IN  IF entered
           THEN IF rotation # 0
                THEN \E ok \in BOOLEAN :
                        IF ok
                        THEN /\ cmds' = Append(cmds, RotateCmd(rotation, "rtl_rot", TRUE))
                             /\ current_heading' = IF IsWaypointPlanner THEN home
                                                   ELSE current_heading
                             /\ self_heading' = IF IsWaypointPlanner THEN home
                                                ELSE self_heading
                             /\ pc' = "rtl_fwd"
                             /\ raised' = raised
                        ELSE /\ Raise(RotateCmd(rotation, "rtl_rot", FALSE), "rtl_rot")
                             /\ UNCHANGED <<current_heading, self_heading>>
                ELSE /\ pc' = "rtl_fwd"
                     /\ UNCHANGED <<cmds, raised, current_heading, self_heading>>
           ELSE /\ pc' = "land"
                /\ UNCHANGED <<cmds, raised, current_heading, self_heading>>
    /\ UNCHANGED <<planner, waypoints, i, current_x, current_y, current_z,
                   self_pos, flying, simulator_mode, photo_count,
                   result>>
    /\ UNCHANGED gridvars
    /\ UNCHANGED othervars

(* return to launch: the translate towards home *)

\* the position trackers left as they are
StaleXY == <<current_x, current_y>>

\* "Reset position trackers on return to home"
HomeXY == <<0, 0>>

ReturnForward ==
    /\ pc = "rtl_fwd"
    /\ LET distance == IntSqrt(current_x * current_x + current_y * current_y)
           issued == IsWaypointPlanner \/ BeyondDeadZone(current_x, current_y)
       IN  IF issued
           THEN \E ok \in BOOLEAN :
                   IF ok
                   THEN /\ cmds' = Append(cmds, Cmd("forward", distance, "rtl_fwd", TRUE))
                        /\ IF IsWaypointPlanner
                           THEN /\ self_pos' = <<HomeXY[1], HomeXY[2], self_pos[3]>>
                                /\ current_x' = HomeXY[1]
                                /\ current_y' = HomeXY[2]
                           ELSE UNCHANGED <<self_pos, current_x, current_y>>
                        /\ pc' = "land"
                        /\ raised' = raised
                   ELSE /\ Raise(Cmd("forward", distance, "rtl_fwd", FALSE), "rtl_fwd")
                        /\ UNCHANGED <<self_pos, current_x, current_y>>
           ELSE /\ pc' = "land"
                /\ UNCHANGED <<cmds, raised, self_pos, current_x, current_y>>
    /\ UNCHANGED <<planner, waypoints, i, current_z, current_heading,
                   self_heading, flying, simulator_mode, photo_count, result>>
    /\ UNCHANGED gridvars
    /\ UNCHANGED othervars

(* "Land" at the end of the try block *)

Land ==
    /\ pc = "land"
    /\ \E ok \in BOOLEAN :
          IF IsWaypointPlanner
          THEN \* TelloWrapper.land catches a driver failure
               /\ cmds' = Append(cmds, Cmd("land", 0, "land", ok))
               /\ flying' = FALSE
               /\ self_pos' = <<self_pos[1], self_pos[2], 0>>
               /\ result' = "True"
               /\ pc' = "done"
               /\ raised' = raised
          ELSE IF ok
               THEN /\ cmds' = Append(cmds, Cmd("land", 0, "land", TRUE))
                    /\ result' = "True"
                    /\ pc' = "done"
                    /\ UNCHANGED <<flying, self_pos, raised>>
               ELSE /\ Raise(Cmd("land", 0, "land", FALSE), "land")
                    /\ UNCHANGED <<flying, self_pos, result>>
    /\ UNCHANGED <<planner, waypoints, i, current_x, current_y, current_z,
                   current_heading, self_heading, simulator_mode, photo_count>>
    /\ UNCHANGED gridvars
    /\ UNCHANGED othervars

(* the except clause: "Try to land safely", return False *)

\* an except clause that returns False without a land
ExceptWithoutLand ==
    /\ pc = "except"
    /\ result' = "False"
    /\ pc' = "done"
    /\ UNCHANGED <<planner, waypoints, i, current_x, current_y, current_z,
                   current_heading, self_pos, self_heading, flying,
                   simulator_mode, photo_count, cmds, raised>>
    /\ UNCHANGED gridvars
    /\ UNCHANGED othervars

EmergencyLand ==
    /\ pc = "except"
    /\ \E ok \in BOOLEAN :
          cmds' = Append(cmds, Cmd("land", 0, "except", ok))
    /\ IF IsWaypointPlanner
       THEN flying' = FALSE /\ self_pos' = <<self_pos[1], self_pos[2], 0>>
       ELSE UNCHANGED <<flying, self_pos>>
    /\ result' = "False"
    /\ pc' = "done"
    /\ UNCHANGED <<planner, waypoints, i, current_x, current_y, current_z,
                   current_heading, self_heading, simulator_mode, photo_count, raised>>
    /\ UNCHANGED gridvars
    /\ UNCHANGED othervars

ExecuteSteps ==
    \/ ExecuteMission
    \/ ConnectDrone
    \/ BatteryCheck
    \/ Takeoff
    \/ AdjustHeight
    \/ RotateToTarget
    \/ MoveForward
    \/ AdjustHeading
    \/ TakePhoto
    \/ CustomAction
    \/ ReturnRotate
    \/ ReturnForward
    \/ Land
    \/ EmergencyLand

Next == AddWaypoint \/ ExecuteSteps

Spec == Init /\ [][Next]_vars

----------------------------------------------------------------------------
(* The square mission of main() in autonomous/mission.py: five waypoints   *)
(* at height 100 with side 80 and headings 0, 90, 180, 270, 0, each with   *)
(* take_photo=True.                                                        *)

SquareMission ==
    << Waypoint(0, 0, 100, HeadingOf(0), TRUE, NoAction),
       Waypoint(80, 0, 100, HeadingOf(90), TRUE, NoAction),
       Waypoint(80, 80, 100, HeadingOf(180), TRUE, NoAction),
       Waypoint(0, 80, 100, HeadingOf(270), TRUE, NoAction),
       Waypoint(0, 0, 100, HeadingOf(0), TRUE, NoAction) >>

\* the next add_waypoint call of main()
MainAddWaypoint ==
    /\ pc = "idle"
    /\ Len(waypoints) < Len(SquareMission)
    /\ waypoints' = Append(waypoints, SquareMission[Len(waypoints) + 1])
    /\ UNCHANGED <<planner, pc, i, current_x, current_y, current_z,
                   current_heading, self_pos, self_heading, flying,
                   simulator_mode, photo_count, cmds, result, raised>>
    /\ UNCHANGED gridvars
    /\ UNCHANGED othervars

SquareNext == MainAddWaypoint \/ ExecuteSteps

(* Missions built by add_waypoint and clear_waypoints calls in any order,  *)
(* flown by WaypointMissionPlanner *)

\* a clear_waypoints that removes the last waypoint only
ClearLastWaypoint ==
    /\ pc = "idle"
    /\ waypoints # <<>>
    /\ waypoints' = SubSeq(waypoints, 1, Len(waypoints) - 1)
    /\ UNCHANGED <<planner, pc, i, current_x, current_y, current_z,
                   current_heading, self_pos, self_heading, flying,
                   simulator_mode, photo_count, cmds, result, raised>>
    /\ UNCHANGED gridvars
    /\ UNCHANGED othervars

\* clear_waypoints: "self.waypoints = []"
ClearWaypoints ==
    /\ pc = "idle"
    /\ waypoints # <<>>
    /\ waypoints' = <<>>
    /\ UNCHANGED <<planner, pc, i, current_x, current_y, current_z,
                   current_heading, self_pos, self_heading, flying,
                   simulator_mode, photo_count, cmds, result, raised>>
    /\ UNCHANGED gridvars
    /\ UNCHANGED othervars

QueueInit == PlannerInit({"WaypointMissionPlanner"})

\* the positions and headings these missions are built from
QueuePositions == {<<0, 0>>, <<80, 20>>, <<0, -80>>}
QueueHeadings == {NoHeading, HeadingOf(90)}

\* add_waypoint(x, y, 100, heading)
QueueAddWaypoint ==
    /\ pc = "idle"
    /\ Len(waypoints) < MaxWaypoints
    /\ \E p \in QueuePositions, h \in QueueHeadings :
          waypoints' = Append(waypoints,
                              Waypoint(p[1], p[2], TakeoffAltitude, h, FALSE,
                                       NoAction))
    /\ UNCHANGED <<planner, pc, i, current_x, current_y, current_z,
                   current_heading, self_pos, self_heading, flying,
                   simulator_mode, photo_count, cmds, result, raised>>
    /\ UNCHANGED gridvars
    /\ UNCHANGED othervars

QueueNext == QueueAddWaypoint \/ ClearWaypoints \/ ExecuteSteps

QueueSpec == QueueInit /\ [][QueueNext]_vars

(* The planner object used again after execute_mission returned: its       *)
(* waypoints, its public pose, its flying flag and its driver stay as the  *)
(* call left them; the locals of execute_mission and the log of the call   *)
(* start afresh                                                            *)

ExecuteAgain ==
    /\ IsWaypointPlanner \/ planner = "MissionPlanner"
    /\ pc = "done"
    /\ pc' = "idle"
    /\ cmds' = <<>>
    /\ result' = "none"
    /\ raised' = "none"
    /\ i' = 0
    /\ current_x' = 0 /\ current_y' = 0 /\ current_z' = 0
    /\ current_heading' = 0
    /\ battery' = NoReading
    /\ action_raised' = {}
    /\ UNCHANGED <<planner, waypoints, self_pos, self_heading, flying,
                   simulator_mode, photo_count>>
    /\ UNCHANGED gridvars
    /\ UNCHANGED <<orbvars, twvars, has_driver, runvars>>

RerunNext ==
    \/ QueueAddWaypoint
    \/ ClearWaypoints
    \/ ExecuteSteps
    \/ ExecuteAgain

RerunSpec == Init /\ [][RerunNext]_vars

SquareSpec == Init /\ [][SquareNext]_vars

(* The square mission and its prefixes, flown by a planner that may have   *)
(* been connected by its user before execute_mission is called *)

BracketNext == MainAddWaypoint \/ ConnectBeforehand \/ ExecuteSteps

BracketSpec == Init /\ [][BracketNext]_vars

(* Missions whose waypoints carry a custom action *)

ActionInputs == {"returns", "raises"}

\* add_waypoint(x, y, z, action=...)
AddActionWaypoint ==
    /\ pc = "idle"
    /\ Len(waypoints) < MaxWaypoints
    /\ \E p \in PositionInputs, z \in ZInputs, a \in ActionInputs :
          waypoints' = Append(waypoints, Waypoint(p[1], p[2], z, NoHeading, FALSE, a))
    /\ UNCHANGED <<planner, pc, i, current_x, current_y, current_z,
                   current_heading, self_pos, self_heading, flying,
                   simulator_mode, photo_count, cmds, result, raised>>
    /\ UNCHANGED gridvars
    /\ UNCHANGED othervars

ActionNext == AddActionWaypoint \/ ExecuteSteps

ActionSpec == Init /\ [][ActionNext]_vars

(* Missions whose waypoints use every option of add_waypoint: a heading,   *)
(* a photo and a custom action                                             *)

OrderPositions == {<<0, 0>>, <<50, 50>>}
OrderHeadings == {NoHeading, HeadingOf(90)}
OrderExtras == {<<FALSE, NoAction>>, <<TRUE, "raises">>}

\* add_waypoint(x, y, z, heading, take_photo, action)
AddFullWaypoint ==
    /\ pc = "idle"
    /\ Len(waypoints) < MaxWaypoints
    /\ \E p \in OrderPositions, z \in ZInputs, h \in OrderHeadings,
          e \in OrderExtras :
          waypoints' = Append(waypoints, Waypoint(p[1], p[2], z, h, e[1], e[2]))
    /\ UNCHANGED <<planner, pc, i, current_x, current_y, current_z,
                   current_heading, self_pos, self_heading, flying,
                   simulator_mode, photo_count, cmds, result, raised>>
    /\ UNCHANGED gridvars
    /\ UNCHANGED othervars

OrderNext == AddFullWaypoint \/ ExecuteSteps

OrderSpec == Init /\ [][OrderNext]_vars


----------------------------------------------------------------------------
(* The grid mission: GridFlightMission of test_missions/grid_flight_sim.py *)
(* (missions/simulator/grid_flight_sim.py and photogrammetry/grid_flight.py *)
(* hold the same sweep), as run on the simulator.  overlap is kept in      *)
(* eighths, which are exact as Python floats, so that                      *)
(* int(grid_spacing * (1 - overlap)) is the integer quotient below.        *)

MaxGridSize == 3
Eighths == 2 * 2 * 2
MinPhotoSpacing == 10
GridSpacings == {20, 50}
OverlapInputs == {0, 4, 6}

\* self.photo_spacing of __init__
PhotoSpacing(spacing, ovl) ==
    LET raw == (spacing * (Eighths - ovl)) \div Eighths
    IN  IF raw < MinPhotoSpacing THEN MinPhotoSpacing ELSE raw

\* self.photos_per_cell of __init__
PhotosPerCell(spacing, pspacing) ==
    LET n == spacing \div pspacing
    IN  IF n < 1 THEN 1 ELSE n

\* state after GridFlightMission.__init__
GridInit ==
    /\ planner = "GridFlightMission"
    /\ grid_size \in 1..MaxGridSize
    /\ grid_spacing \in GridSpacings
    /\ overlap \in OverlapInputs
    /\ photo_spacing = PhotoSpacing(grid_spacing, overlap)
    /\ photos_per_cell = PhotosPerCell(grid_spacing, photo_spacing)
    /\ row = 0 /\ col = 0 /\ micro_i = 0 /\ micro_j = 0
    /\ simulator_mode = TRUE
    /\ photo_count = 0
    /\ pc = "idle"
    /\ cmds = <<>>
    /\ result = "none"
    /\ raised = "none"
    /\ waypoints = <<>>
    /\ i = 0
    /\ current_x = 0 /\ current_y = 0 /\ current_z = 0
    /\ current_heading = 0
    /\ self_pos = <<0, 0, 0>>
    /\ self_heading = 0
    /\ flying = FALSE
    /\ NoOrbit
    /\ NoWrapper
    /\ battery = NoReading
    /\ action_raised = {}
    /\ has_driver = FALSE
    /\ NoRunner

\* one call on the simulator driver by the grid mission, as recorded in
\* cmds, with the cell the sweep is at
GridCmd(verb, arg, step, ok) ==
    [verb |-> verb, arg |-> arg, step |-> step, row |-> row,
     col |-> col, ok |-> ok]

\* which of the calls of moves may raise (0: none): any of them on the
\* simulator; on the physical driver, which has no fly_ method, the first
FailurePoints(moves) ==
    IF drone = DriverClass(FALSE)
    THEN (IF moves = <<>> THEN {0} ELSE {1})
    ELSE 0..Len(moves)

\* _capture_grid_photo: the simulated capture always counts; the real
\* one counts unless it raised before the counter
GridCapture ==
    IF simulator_mode
    THEN photo_count' = photo_count + 1
    ELSE \E captured \in BOOLEAN :
            photo_count' = IF captured THEN photo_count + 1 ELSE photo_count

\* the calls of moves (pairs of verb and argument) made in order on
\* self.drone: either all succeed and the rest of the step is done, or one
\* of them raises and control passes to the except clause
Fly(moves, step, done) ==
    \E f \in FailurePoints(moves) :
        IF f = 0
        THEN /\ cmds' = cmds \o [k \in 1..Len(moves) |->
                                   GridCmd(moves[k][1], moves[k][2], step, TRUE)]
             /\ raised' = raised
             /\ done
        ELSE /\ cmds' = cmds \o [k \in 1..f |->
                                   GridCmd(moves[k][1], moves[k][2], step, k < f)]
             /\ raised' = step
             /\ pc' = "except"
             /\ UNCHANGED <<row, col, micro_i, micro_j, photo_count>>

\* reverse_direction of a row, and the first and last col of its col_range
\* every row flown in the same direction
NeverReverse(r) == FALSE

ReverseDirection(r) == r % 2 = 1
FirstCol(r) == IF ReverseDirection(r) THEN grid_size - 1 ELSE 0
LastCol(r) == IF ReverseDirection(r) THEN 0 ELSE grid_size - 1

\* the next iteration of the loops over row and col, or the end of both
NextCell ==
    /\ micro_i' = 0 /\ micro_j' = 0
    /\ IF col # LastCol(row)
       THEN /\ row' = row
            /\ col' = IF ReverseDirection(row) THEN col - 1 ELSE col + 1
            /\ pc' = "cell"
       ELSE IF row + 1 < grid_size
            THEN row' = row + 1 /\ col' = FirstCol(row + 1) /\ pc' = "cell"
            ELSE row' = row /\ col' = col /\ pc' = "home"

(* "Take off and reach desired height": TelloWrapper.takeoff catches a     *)
(* driver failure *)

GridTakeoff ==
    /\ pc = "idle"
    /\ \E ok \in BOOLEAN :
          cmds' = Append(cmds, GridCmd("takeoff", 0, "takeoff", ok))
    /\ pc' = "cell"
    /\ UNCHANGED <<planner, simulator_mode, photo_count, result, raised>>
    /\ UNCHANGED gridvars
    /\ UNCHANGED wpvars
    /\ UNCHANGED <<twvars, battery, action_raised, has_driver, runvars>>
    /\ UNCHANGED othervars

(* the move to the next grid position *)

GridMove ==
    /\ pc = "cell"
    /\ LET x == col * grid_spacing
           y == row * grid_spacing
           first == (IF x > 0 THEN << <<"fly_forward", x>> >> ELSE << >>)
                    \o (IF y > 0 THEN << <<"fly_right", y>> >> ELSE << >>)
           moves == IF row = 0 /\ col = 0
                    THEN first
                    ELSE IF col = FirstCol(row)
                         THEN << <<"fly_right", grid_spacing>> >>
                         ELSE IF ReverseDirection(row)
                              THEN << <<"fly_backward", grid_spacing>> >>
                              ELSE << <<"fly_forward", grid_spacing>> >>
       IN  Fly(moves, "cell",
               /\ pc' = IF photos_per_cell = 1 THEN "photo" ELSE "micro"
               /\ UNCHANGED <<row, col, micro_i, micro_j, photo_count>>)
    /\ UNCHANGED <<planner, simulator_mode, result>>
    /\ UNCHANGED <<grid_size, grid_spacing, overlap, photo_spacing, photos_per_cell>>
    /\ UNCHANGED wpvars
    /\ UNCHANGED <<twvars, battery, action_raised, has_driver, runvars>>
    /\ UNCHANGED othervars

(* "Just take one photo at the grid intersection" *)

GridPhoto ==
    /\ pc = "photo"
    /\ GridCapture
    /\ NextCell
    /\ UNCHANGED <<planner, simulator_mode, cmds, result, raised>>
    /\ UNCHANGED <<grid_size, grid_spacing, overlap, photo_spacing, photos_per_cell>>
    /\ UNCHANGED wpvars
    /\ UNCHANGED <<twvars, battery, action_raised, has_driver, runvars>>
    /\ UNCHANGED othervars

(* one iteration of "Take multiple photos within the grid cell" *)

GridMicroStep ==
    /\ pc = "micro"
    /\ LET moves == (IF micro_i > 0 THEN << <<"fly_forward", photo_spacing>> >>
                                    ELSE << >>)
                    \o (IF micro_j > 0 THEN << <<"fly_right", photo_spacing>> >>
                                       ELSE << >>)
       IN  Fly(moves, "micro",
               /\ GridCapture
               /\ UNCHANGED <<row, col>>
               /\ IF micro_j + 1 < photos_per_cell
                  THEN micro_i' = micro_i /\ micro_j' = micro_j + 1 /\ pc' = "micro"
                  ELSE IF micro_i + 1 < photos_per_cell
                       THEN micro_i' = micro_i + 1 /\ micro_j' = 0 /\ pc' = "micro"
                       ELSE micro_i' = micro_i /\ micro_j' = micro_j /\ pc' = "retrace")
    /\ UNCHANGED <<planner, simulator_mode, result>>
    /\ UNCHANGED <<grid_size, grid_spacing, overlap, photo_spacing, photos_per_cell>>
    /\ UNCHANGED wpvars
    /\ UNCHANGED <<twvars, battery, action_raised, has_driver, runvars>>
    /\ UNCHANGED othervars

(* "Return to grid intersection for next move" *)

GridRetrace ==
    /\ pc = "retrace"
    /\ LET back == (photos_per_cell - 1) * photo_spacing
       IN  Fly(<< <<"fly_backward", back>>, <<"fly_left", back>> >>, "retrace",
               /\ NextCell
               /\ UNCHANGED photo_count)
    /\ UNCHANGED <<planner, simulator_mode, result>>
    /\ UNCHANGED <<grid_size, grid_spacing, overlap, photo_spacing, photos_per_cell>>
    /\ UNCHANGED wpvars
    /\ UNCHANGED <<twvars, battery, action_raised, has_driver, runvars>>
    /\ UNCHANGED othervars

\* current_x of "Calculate current position"
GridCurrentX ==
    IF grid_size % 2 = 0 THEN (grid_size - 1) * grid_spacing ELSE 0

\* current_y of "Calculate current position"
GridCurrentY == (grid_size - 1) * grid_spacing

(* "Return to home (0,0)" *)

GridReturnHome ==
    /\ pc = "home"
    /\ LET moves == (IF GridCurrentX > 0
                     THEN << <<"fly_backward", GridCurrentX>> >> ELSE << >>)
                    \o (IF GridCurrentY > 0
                        THEN << <<"fly_left", GridCurrentY>> >> ELSE << >>)
       IN  Fly(moves, "home",
               /\ pc' = "land"
               /\ UNCHANGED <<row, col, micro_i, micro_j, photo_count>>)
    /\ UNCHANGED <<planner, simulator_mode, result>>
    /\ UNCHANGED <<grid_size, grid_spacing, overlap, photo_spacing, photos_per_cell>>
    /\ UNCHANGED wpvars
    /\ UNCHANGED <<twvars, battery, action_raised, has_driver, runvars>>
    /\ UNCHANGED othervars

(* "Land": TelloWrapper.land catches a driver failure; return True *)

GridLand ==
    /\ pc = "land"
    /\ \E ok \in BOOLEAN :
          cmds' = Append(cmds, GridCmd("land", 0, "land", ok))
    /\ result' = "True"
    /\ pc' = "done"
    /\ UNCHANGED <<planner, simulator_mode, photo_count, raised>>
    /\ UNCHANGED gridvars
    /\ UNCHANGED wpvars
    /\ UNCHANGED <<twvars, battery, action_raised, has_driver, runvars>>
    /\ UNCHANGED othervars

(* the except clause: emergency_land, which on the simulator is land;      *)
(* return False *)

GridEmergencyLand ==
    /\ pc = "except"
    /\ \E ok \in BOOLEAN :
          cmds' = Append(cmds, GridCmd(EmergencyVerb, 0, "except", ok))
    /\ result' = "False"
    /\ pc' = "done"
    /\ UNCHANGED <<planner, simulator_mode, photo_count, raised>>
    /\ UNCHANGED gridvars
    /\ UNCHANGED wpvars
    /\ UNCHANGED <<twvars, battery, action_raised, has_driver, runvars>>
    /\ UNCHANGED othervars

GridNext ==
    \/ GridTakeoff
    \/ GridMove
    \/ GridPhoto
    \/ GridMicroStep
    \/ GridRetrace
    \/ GridReturnHome
    \/ GridLand
    \/ GridEmergencyLand

GridSpec == GridInit /\ [][GridNext]_vars

(* The grid mission and the planners on either driver: the configuration   *)
(* may or may not enable the simulator, and the simulator package may be   *)
(* missing                                                                 *)

\* state after GridFlightMission.__init__ for any configuration: the
\* wrapper chooses the driver, then the mission overwrites its own
\* simulator_mode with config['simulator']['enabled']
GridModeInit ==
    /\ planner = "GridFlightMission"
    /\ grid_size \in 1..MaxGridSize
    /\ grid_spacing \in GridSpacings
    /\ overlap \in OverlapInputs
    /\ photo_spacing = PhotoSpacing(grid_spacing, overlap)
    /\ photos_per_cell = PhotosPerCell(grid_spacing, photo_spacing)
    /\ row = 0 /\ col = 0 /\ micro_i = 0 /\ micro_j = 0
    /\ \E enabled \in BOOLEAN, available \in BOOLEAN :
          /\ simulator_mode = enabled
          /\ drone = DriverClass(SimulatorMode(enabled, available))
    /\ connected = FALSE /\ airborne = FALSE /\ last_call = NoCall
    /\ photo_count = 0
    /\ pc = "idle"
    /\ cmds = <<>>
    /\ result = "none"
    /\ raised = "none"
    /\ waypoints = <<>>
    /\ i = 0
    /\ current_x = 0 /\ current_y = 0 /\ current_z = 0
    /\ current_heading = 0
    /\ self_pos = <<0, 0, 0>>
    /\ self_heading = 0
    /\ flying = FALSE
    /\ NoOrbit
    /\ battery = NoReading
    /\ action_raised = {}
    /\ has_driver = FALSE
    /\ NoRunner

ModeInit == GridModeInit \/ QueueInit

ModeNext ==
    \/ planner = "GridFlightMission" /\ GridNext
    \/ IsWaypointPlanner /\ (QueueAddWaypoint \/ ExecuteSteps)

ModeSpec == ModeInit /\ [][ModeNext]_vars

(* GridFlightMission.__init__ on its own, over a wider range of arguments: *)
(* grid_spacing in tens of centimetres, overlap in every eighth of [0, 1). *)

ParamSpacings == {10 * k : k \in 1..10}
ParamOverlaps == 0..(Eighths - 1)

\* the arguments of GridFlightMission(...) before the body of __init__ ran
ParamInit ==
    /\ planner = "GridFlightMission"
    /\ grid_size = 1
    /\ grid_spacing \in ParamSpacings
    /\ overlap \in ParamOverlaps
    /\ photo_spacing = 0
    /\ photos_per_cell = 0
    /\ row = 0 /\ col = 0 /\ micro_i = 0 /\ micro_j = 0
    /\ simulator_mode = TRUE
    /\ photo_count = 0
    /\ pc = "construct"
    /\ cmds = <<>>
    /\ result = "none"
    /\ raised = "none"
    /\ waypoints = <<>>
    /\ i = 0
    /\ current_x = 0 /\ current_y = 0 /\ current_z = 0
    /\ current_heading = 0
    /\ self_pos = <<0, 0, 0>>
    /\ self_heading = 0
    /\ flying = FALSE
    /\ NoOrbit
    /\ NoWrapper
    /\ battery = NoReading
    /\ action_raised = {}
    /\ has_driver = FALSE
    /\ NoRunner

\* the body of __init__: photo_spacing and photos_per_cell
GridConstruct ==
    /\ pc = "construct"
    /\ photo_spacing' = PhotoSpacing(grid_spacing, overlap)
    /\ photos_per_cell' = PhotosPerCell(grid_spacing, photo_spacing')
    /\ pc' = "idle"
    /\ UNCHANGED <<wpvars, planner, simulator_mode, photo_count, cmds, result,
                   raised, grid_size, grid_spacing, overlap, row, col,
                   micro_i, micro_j, othervars>>

ParamNext == GridConstruct

ParamSpec == ParamInit /\ [][ParamNext]_vars

----------------------------------------------------------------------------
(* The orbital mission: OrbitalFlightMission, in its two sources,          *)
(* test_missions/grid_flight_sim.py (variant "test_missions") and          *)
(* missions/simulator/grid_flight_sim.py (variant "missions_simulator",    *)
(* whose turns photogrammetry/grid_flight.py orbital_flight shares), as    *)
(* run on the simulator.                                                   *)

MaxPoints == 6
Radii == {40, 80}
Variants == {"test_missions", "missions_simulator"}

\* int(2 * radius * math.sin(math.radians(angle_step / 2))) and
\* int(2 * math.pi * radius * (angle_step / 360)) for angle_step = 360 / points,
\* as Python computes them, by <<radius, points>>
ChordTable ==
    (<<40, 1>> :> 0)  @@ (<<40, 2>> :> 80) @@ (<<40, 3>> :> 69) @@
    (<<40, 4>> :> 56) @@ (<<40, 5>> :> 47) @@ (<<40, 6>> :> 39) @@
    (<<40, 7>> :> 34) @@ (<<40, 8>> :> 30) @@
    (<<80, 1>> :> 0)   @@ (<<80, 2>> :> 160) @@ (<<80, 3>> :> 138) @@
    (<<80, 4>> :> 113) @@ (<<80, 5>> :> 94)  @@ (<<80, 6>> :> 79)  @@
    (<<80, 7>> :> 69)  @@ (<<80, 8>> :> 61)
ArcTable ==
    (<<40, 1>> :> 251) @@ (<<40, 2>> :> 125) @@ (<<40, 3>> :> 83) @@
    (<<40, 4>> :> 62)  @@ (<<40, 5>> :> 50)  @@ (<<40, 6>> :> 41) @@
    (<<40, 7>> :> 35)  @@ (<<40, 8>> :> 31)  @@
    (<<80, 1>> :> 502) @@ (<<80, 2>> :> 251) @@ (<<80, 3>> :> 167) @@
    (<<80, 4>> :> 125) @@ (<<80, 5>> :> 100) @@ (<<80, 6>> :> 83)  @@
    (<<80, 7>> :> 71)  @@ (<<80, 8>> :> 62)

\* the length of the travel command between two orbital positions
TravelLength ==
    IF variant = "test_missions" THEN ChordTable[<<radius, points>>]
    ELSE ArcTable[<<radius, points>>]

\* the turn to the tangent: yaw_right(90) in test_missions, yaw_left(90)
\* in missions/simulator
TangentVerb == IF variant = "test_missions" THEN "yaw_right" ELSE "yaw_left"

\* the turn before the return leg: yaw_right(180) in test_missions,
\* yaw_left(180) in missions/simulator
TurnHomeVerb == IF variant = "test_missions" THEN "yaw_right" ELSE "yaw_left"

\* state after OrbitalFlightMission.__init__
OrbitInit ==
    /\ planner = "OrbitalFlightMission"
    /\ variant \in Variants
    /\ radius \in Radii
    /\ points \in 1..MaxPoints
    /\ orbit_i = 0
    /\ NoWrapper
    /\ battery = NoReading
    /\ action_raised = {}
    /\ has_driver = FALSE
    /\ NoRunner
    /\ simulator_mode = TRUE
    /\ photo_count = 0
    /\ pc = "idle"
    /\ cmds = <<>>
    /\ result = "none"
    /\ raised = "none"
    /\ waypoints = <<>>
    /\ i = 0
    /\ current_x = 0 /\ current_y = 0 /\ current_z = 0
    /\ current_heading = 0
    /\ self_pos = <<0, 0, 0>>
    /\ self_heading = 0
    /\ flying = FALSE
    /\ grid_size = 0 /\ grid_spacing = 0 /\ overlap = 0
    /\ photo_spacing = 0 /\ photos_per_cell = 0
    /\ row = 0 /\ col = 0 /\ micro_i = 0 /\ micro_j = 0

\* one call on the simulator driver by the orbital mission, as recorded
\* in cmds, with the orbital position the loop is at
OrbitCmd(verb, arg, step, ok) ==
    [verb |-> verb, arg |-> arg, step |-> step, at |-> orbit_i, ok |-> ok]

\* a call on self.drone inside the try block: it returns and the mission
\* goes on at next, or it raises and control passes to the except clause
OrbitCall(verb, arg, step, next) ==
    /\ \E ok \in BOOLEAN :
          /\ cmds' = Append(cmds, OrbitCmd(verb, arg, step, ok))
          /\ pc' = IF ok THEN next ELSE "except"
          /\ raised' = IF ok THEN raised ELSE step
    /\ UNCHANGED <<planner, simulator_mode, photo_count, result>>
    /\ UNCHANGED <<radius, points, variant, orbit_i>>
    /\ UNCHANGED gridvars
    /\ UNCHANGED wpvars
    /\ UNCHANGED <<twvars, battery, action_raised, has_driver, runvars>>

(* "Take off and reach desired height": TelloWrapper.takeoff catches a     *)
(* driver failure *)

OrbitTakeoff ==
    /\ pc = "idle"
    /\ \E ok \in BOOLEAN :
          cmds' = Append(cmds, OrbitCmd("takeoff", 0, "takeoff", ok))
    /\ pc' = "out"
    /\ UNCHANGED <<planner, simulator_mode, photo_count, result, raised>>
    /\ UNCHANGED orbvars
    /\ UNCHANGED gridvars
    /\ UNCHANGED wpvars
    /\ UNCHANGED <<twvars, battery, action_raised, has_driver, runvars>>

(* "Move forward to the orbital radius" *)

OrbitOutward ==
    /\ pc = "out"
    /\ OrbitCall("fly_forward", radius, "out", "face")

(* "Take first photo facing the center": the turn *)

OrbitFaceCenter ==
    /\ pc = "face"
    /\ OrbitCall("yaw_right", 180, "face", "photo")

(* _capture_orbital_photo, then the next iteration of the loop over        *)
(* range(1, points) or the end of it                                       *)

\* a loop over range(1, points + 1)
MorePointsInclusive == orbit_i < points

\* range(1, points) has a value after orbit_i
MorePoints == orbit_i + 1 < points

OrbitPhoto ==
    /\ pc = "photo"
    /\ photo_count' = photo_count + 1
    /\ IF MorePoints
       THEN orbit_i' = orbit_i + 1 /\ pc' = "tangent"
       ELSE orbit_i' = orbit_i /\ pc' = "turn_home"
    /\ UNCHANGED <<planner, simulator_mode, cmds, result, raised>>
    /\ UNCHANGED <<radius, points, variant>>
    /\ UNCHANGED gridvars
    /\ UNCHANGED wpvars
    /\ UNCHANGED <<twvars, battery, action_raised, has_driver, runvars>>

(* "yaw to face tangent to the circle" *)

OrbitTangent ==
    /\ pc = "tangent"
    /\ OrbitCall(TangentVerb, 90, "tangent", "travel")

(* "Move along the chord", "Move along the orbit" *)

OrbitTravel ==
    /\ pc = "travel"
    /\ OrbitCall("fly_forward", TravelLength, "travel", "recenter")

(* "Yaw to face center again" *)

OrbitRecenter ==
    /\ pc = "recenter"
    /\ OrbitCall("yaw_right", 90, "recenter", "photo")

(* "Yaw to face away from center" *)

OrbitTurnHome ==
    /\ pc = "turn_home"
    /\ OrbitCall(TurnHomeVerb, 180, "turn_home", "go_home")

(* "Move back to origin", "Move back to center" *)

OrbitGoHome ==
    /\ pc = "go_home"
    /\ OrbitCall("fly_forward", radius, "go_home", "land")

(* "Land": TelloWrapper.land catches a driver failure; return True *)

OrbitLand ==
    /\ pc = "land"
    /\ \E ok \in BOOLEAN :
          cmds' = Append(cmds, OrbitCmd("land", 0, "land", ok))
    /\ result' = "True"
    /\ pc' = "done"
    /\ UNCHANGED <<planner, simulator_mode, photo_count, raised>>
    /\ UNCHANGED orbvars
    /\ UNCHANGED gridvars
    /\ UNCHANGED wpvars
    /\ UNCHANGED <<twvars, battery, action_raised, has_driver, runvars>>

(* the except clause: emergency_land, which on the simulator is land;      *)
(* return False *)

OrbitEmergencyLand ==
    /\ pc = "except"
    /\ \E ok \in BOOLEAN :
          cmds' = Append(cmds, OrbitCmd("land", 0, "except", ok))
    /\ result' = "False"
    /\ pc' = "done"
    /\ UNCHANGED <<planner, simulator_mode, photo_count, raised>>
    /\ UNCHANGED orbvars
    /\ UNCHANGED gridvars
    /\ UNCHANGED wpvars
    /\ UNCHANGED <<twvars, battery, action_raised, has_driver, runvars>>

OrbitNext ==
    \/ OrbitTakeoff
    \/ OrbitOutward
    \/ OrbitFaceCenter
    \/ OrbitPhoto
    \/ OrbitTangent
    \/ OrbitTravel
    \/ OrbitRecenter
    \/ OrbitTurnHome
    \/ OrbitGoHome
    \/ OrbitLand
    \/ OrbitEmergencyLand

OrbitSpec == OrbitInit /\ [][OrbitNext]_vars

----------------------------------------------------------------------------
(* TelloWrapper (tello_wrapper.py) used on its own: any primitive may be   *)
(* called in any state of the wrapper.  A call of the driver either        *)
(* returns or raises; last_call records the primitive, the value of        *)
(* self.connected and the state of the vehicle when it was called, the     *)
(* driver calls it made, and what it returned to its caller ("raise" if an *)
(* exception left the primitive).                                          *)

Moves == {"move_forward", "move_back", "move_left", "move_right",
          "move_up", "move_down"}
Rotations == {"rotate_clockwise", "rotate_counter_clockwise"}

\* the method of self.drone a move or rotate primitive calls
WrapperVerb(prim, sim) ==
    IF sim
    THEN CASE prim = "move_forward" -> "fly_forward"
           [] prim = "move_back" -> "fly_backward"
           [] prim = "move_left" -> "fly_left"
           [] prim = "move_right" -> "fly_right"
           [] prim = "move_up" -> "fly_up"
           [] prim = "move_down" -> "fly_down"
           [] prim = "rotate_clockwise" -> "yaw_right"
           [] prim = "rotate_counter_clockwise" -> "yaw_left"
           [] OTHER -> prim
    ELSE prim

\* one call of a method of self.drone and whether it returned
Sent(verb, ok) == [verb |-> verb, ok |-> ok]

\* state after TelloWrapper.__init__
WrapperInit ==
    /\ planner = "TelloWrapper"
    /\ \E enabled \in BOOLEAN, available \in BOOLEAN :
          simulator_mode = SimulatorMode(enabled, available)
    /\ drone = DriverClass(simulator_mode)
    /\ connected = FALSE /\ airborne = FALSE /\ last_call = NoCall
    /\ battery = NoReading
    /\ action_raised = {}
    /\ has_driver = FALSE
    /\ fast_mode \in BOOLEAN
    /\ codes = NoCodes
    /\ emergency_stop = TRUE
    /\ interrupts = 0
    /\ exit_code = "none"
    /\ side_length = 0
    /\ corners_visited = 0
    /\ photo_count = 0
    /\ pc = "idle"
    /\ cmds = <<>>
    /\ result = "none"
    /\ raised = "none"
    /\ waypoints = <<>>
    /\ i = 0
    /\ current_x = 0 /\ current_y = 0 /\ current_z = 0
    /\ current_heading = 0
    /\ self_pos = <<0, 0, 0>>
    /\ self_heading = 0
    /\ flying = FALSE
    /\ grid_size = 0 /\ grid_spacing = 0 /\ overlap = 0
    /\ photo_spacing = 0 /\ photos_per_cell = 0
    /\ row = 0 /\ col = 0 /\ micro_i = 0 /\ micro_j = 0
    /\ NoOrbit

\* a primitive that drops the driver object when it disconnects
ReturnedDropping(prim, sent, ret) ==
    /\ last_call' = [prim |-> prim, conn |-> connected, air |-> airborne,
                     sent |-> sent, ret |-> ret,
                     slept |-> PrimitiveSleep(prim, ret, fast_mode)]
    /\ drone' = IF prim = "disconnect" /\ connected THEN "none" ELSE drone
    /\ UNCHANGED <<pvars, gridvars, orbvars, battery, action_raised, has_driver, runvars>>

\* the return of a primitive to its caller
Returned(prim, sent, ret) ==
    /\ drone' = drone
    /\ last_call' = [prim |-> prim, conn |-> connected, air |-> airborne,
                     sent |-> sent, ret |-> ret,
                     slept |-> PrimitiveSleep(prim, ret, fast_mode)]
    /\ UNCHANGED <<pvars, gridvars, orbvars, battery, action_raised, has_driver, runvars>>

\* the driver calls of the try block of connect when the fail-th of them
\* raises (0: none does): drone.connect, drone.set_speed, drone.get_battery
ConnectCalls(sim, fail) ==
    IF sim THEN <<>>
    ELSE LET all == <<"connect", "set_speed", "get_battery">>
         IN  [k \in 1..(IF fail = 0 THEN 3 ELSE fail) |->
                 Sent(all[k], k # fail)]

ConnectFailures(sim) == IF sim THEN {0} ELSE 0..3

WrapperConnect ==
    /\ planner = "TelloWrapper"
    /\ \E fail \in ConnectFailures(simulator_mode) :
          /\ connected' = (fail = 0)
          /\ airborne' = airborne
          /\ Returned("connect", ConnectCalls(simulator_mode, fail),
                      IF fail = 0 THEN "True" ELSE "False")

WrapperDisconnect ==
    /\ planner = "TelloWrapper"
    /\ IF ~connected
       THEN connected' = connected /\ Returned("disconnect", <<>>, "None")
       ELSE IF simulator_mode
            THEN connected' = FALSE /\ Returned("disconnect", <<>>, "None")
            ELSE \E ok \in BOOLEAN :
                    /\ connected' = ~ok
                    /\ Returned("disconnect", <<Sent("end", ok)>>, "None")
    /\ airborne' = airborne

\* a takeoff that does not connect
WrapperTakeoffBare ==
    /\ planner = "TelloWrapper"
    /\ \E ok \in BOOLEAN :
          /\ connected' = connected
          /\ airborne' = (airborne \/ ok)
          /\ Returned("takeoff", <<Sent("takeoff", ok)>>,
                      IF ok THEN "True" ELSE "False")

\* takeoff: "if not self.connected: self.connect()", then drone.takeoff()
WrapperTakeoff ==
    /\ planner = "TelloWrapper"
    /\ \E fail \in ConnectFailures(simulator_mode), ok \in BOOLEAN :
          LET inner == IF connected THEN <<>>
                       ELSE ConnectCalls(simulator_mode, fail)
          IN  /\ connected => fail = 0
              /\ connected' = (connected \/ fail = 0)
              /\ airborne' = (airborne \/ ok)
              /\ Returned("takeoff", inner \o <<Sent("takeoff", ok)>>,
                          IF ok THEN "True" ELSE "False")

WrapperLand ==
    /\ planner = "TelloWrapper"
    /\ \E ok \in BOOLEAN :
          /\ airborne' = (airborne /\ ~ok)
          /\ connected' = connected
          /\ Returned("land", <<Sent("land", ok)>>,
                      IF ok THEN "True" ELSE "False")

WrapperEmergency ==
    /\ planner = "TelloWrapper"
    /\ \E ok \in BOOLEAN :
          /\ airborne' = (airborne /\ ~ok)
          /\ connected' = connected
          /\ Returned("emergency", <<Sent("emergency", ok)>>, "None")

WrapperStreamon ==
    /\ planner = "TelloWrapper"
    /\ UNCHANGED <<connected, airborne>>
    /\ IF simulator_mode
       THEN Returned("streamon", <<>>, "True")
       ELSE \E ok \in BOOLEAN :
               Returned("streamon", <<Sent("streamon", ok)>>,
                        IF ok THEN "True" ELSE "False")

WrapperStreamoff ==
    /\ planner = "TelloWrapper"
    /\ UNCHANGED <<connected, airborne>>
    /\ IF simulator_mode
       THEN Returned("streamoff", <<>>, "None")
       ELSE \E ok \in BOOLEAN :
               Returned("streamoff", <<Sent("streamoff", ok)>>, "None")

\* take_photo: nothing on the simulator; on the drone connect() if not
\* connected, streamon(), a sleep, then the frame is read and saved, and
\* an exception of these is caught
WrapperTakePhoto ==
    /\ planner = "TelloWrapper"
    /\ airborne' = airborne
    /\ IF simulator_mode
       THEN connected' = connected /\ Returned("take_photo", <<>>, "None")
       ELSE \E fail \in ConnectFailures(simulator_mode), on \in BOOLEAN,
               frame \in BOOLEAN, saved \in BOOLEAN :
               LET inner == IF connected THEN <<>>
                            ELSE ConnectCalls(simulator_mode, fail)
               IN  /\ connected => fail = 0
                   /\ ~frame => ~saved
                   /\ connected' = (connected \/ fail = 0)
                   /\ Returned("take_photo",
                               inner \o <<Sent("streamon", on),
                                          Sent("get_frame_read", frame)>>,
                               IF saved THEN "path" ELSE "None")

\* move_forward .. move_down and rotate_clockwise, rotate_counter_clockwise:
\* the try block calls the driver, whatever self.connected is; the except
\* clause prints, and the primitive returns None either way
WrapperMotion(prims) ==
    /\ planner = "TelloWrapper"
    /\ UNCHANGED <<connected, airborne>>
    /\ \E prim \in prims, ok \in BOOLEAN :
          Returned(prim, <<Sent(WrapperVerb(prim, simulator_mode), ok)>>,
                   "None")

WrapperMove == WrapperMotion(Moves)

WrapperRotate == WrapperMotion(Rotations)

WrapperNext ==
    \/ WrapperConnect
    \/ WrapperDisconnect
    \/ WrapperTakeoff
    \/ WrapperLand
    \/ WrapperEmergency
    \/ WrapperStreamon
    \/ WrapperStreamoff
    \/ WrapperTakePhoto
    \/ WrapperMove
    \/ WrapperRotate

WrapperSpec == WrapperInit /\ [][WrapperNext]_vars

----------------------------------------------------------------------------
(* Mission runners: main() of grid_sim_test.py, orbital_sim_test.py and    *)
(* test_flight.py ("sim_test"), run_square_flight, run_grid_flight and     *)
(* run_orbital_flight with main() of run_simulator.py ("run_simulator"),   *)
(* and test_waypoint_mission, test_spiral_mission of waypoint_sim.py       *)
(* ("waypoint_test").  execute_mission is one step here: it returns True   *)
(* or False, or an exception leaves it.  A KeyboardInterrupt can arrive    *)
(* wherever the runner is; cmds is the sequence of calls the runner made,  *)
(* raised the exception the runner caught, if any.                         *)

MaxInterrupts == 2

Runners == {"sim_test", "run_simulator", "waypoint_test"}

IsRunner == planner \in Runners

\* the runners of the DroneController missions
ControllerRunners == {"sim_test", "run_simulator"}

RunnerCall(verb, step) == [verb |-> verb, step |-> step]

\* state when the runner is called
RunnerInit ==
    /\ planner \in Runners
    /\ simulator_mode \in BOOLEAN
    /\ emergency_stop \in BOOLEAN
    /\ interrupts = 0
    /\ exit_code = "none"
    /\ codes = NoCodes
    /\ fast_mode = FALSE
    /\ side_length = 0
    /\ corners_visited = 0
    /\ pc = "start"
    /\ cmds = <<>>
    /\ result = "none"
    /\ raised = "none"
    /\ photo_count = 0
    /\ waypoints = <<>>
    /\ i = 0
    /\ current_x = 0 /\ current_y = 0 /\ current_z = 0
    /\ current_heading = 0
    /\ self_pos = <<0, 0, 0>>
    /\ self_heading = 0
    /\ flying = FALSE
    /\ grid_size = 0 /\ grid_spacing = 0 /\ overlap = 0
    /\ photo_spacing = 0 /\ photos_per_cell = 0
    /\ row = 0 /\ col = 0 /\ micro_i = 0 /\ micro_j = 0
    /\ NoOrbit
    /\ NoWrapper
    /\ battery = NoReading
    /\ action_raised = {}
    /\ has_driver = FALSE

\* what a runner step leaves alone
RunnerFrame ==
    /\ UNCHANGED <<planner, simulator_mode, emergency_stop, fast_mode,
                   side_length, corners_visited, photo_count, wpvars,
                   gridvars, orbvars, twvars, battery, action_raised,
                   has_driver>>
    /\ UNCHANGED codes

\* a KeyboardInterrupt arrives during the step
Interrupt == interrupts < MaxInterrupts /\ interrupts' = interrupts + 1

\* the mission is constructed; the sim_test runners return 1 when it is not
\* in simulator mode
RunnerStart ==
    /\ IsRunner
    /\ pc = "start"
    /\ IF planner = "sim_test" /\ ~simulator_mode
       THEN exit_code' = "1" /\ pc' = "returned"
       ELSE exit_code' = exit_code /\ pc' = "execute"
    /\ UNCHANGED <<cmds, result, raised, interrupts>>
    /\ RunnerFrame

\* where the runner goes when execute_mission ends with the given outcome
AfterExecute(out) ==
    IF planner = "waypoint_test" THEN "finally"
    ELSE CASE out = "KeyboardInterrupt" -> "interrupt_land"
           [] out = "Exception" -> "error_land"
           [] OTHER -> "disconnect"

\* "result = mission.execute_mission()"
RunExecute ==
    /\ IsRunner
    /\ pc = "execute"
    /\ cmds' = Append(cmds, RunnerCall("execute_mission", "try"))
    /\ \E out \in {"True", "False", "KeyboardInterrupt", "Exception"} :
          /\ pc' = AfterExecute(out)
          /\ IF out \in {"True", "False"}
             THEN result' = out /\ raised' = raised
             ELSE result' = result /\ raised' = out
          /\ IF out = "KeyboardInterrupt"
             THEN Interrupt
             ELSE interrupts' = interrupts
    /\ exit_code' = exit_code
    /\ RunnerFrame

\* "mission.disconnect()" of the try block
RunDisconnect ==
    /\ IsRunner
    /\ pc = "disconnect"
    /\ \/ /\ cmds' = Append(cmds, RunnerCall("disconnect", "try"))
          /\ pc' = "return"
          /\ UNCHANGED <<raised, interrupts>>
       \/ /\ Interrupt
          /\ \E called \in BOOLEAN :
                cmds' = IF called
                        THEN Append(cmds, RunnerCall("disconnect", "try"))
                        ELSE cmds
          /\ raised' = "KeyboardInterrupt"
          /\ pc' = "interrupt_land"
    /\ UNCHANGED <<result, exit_code>>
    /\ RunnerFrame

\* "return 0 if result else 1"; in run_simulator "return result" and in
\* its main "return 0 if result else 1"
RunReturn ==
    /\ IsRunner
    /\ pc = "return"
    /\ exit_code' = IF result = "True" THEN "0" ELSE "1"
    /\ pc' = "returned"
    /\ UNCHANGED <<cmds, result, raised, interrupts>>
    /\ RunnerFrame

\* an except clause without its emergency_land
HandlerNoLand(at, next, step) ==
    /\ IsRunner
    /\ pc = at
    /\ pc' = next
    /\ UNCHANGED <<cmds, result, raised, interrupts, exit_code>>
    /\ RunnerFrame

\* "mission.emergency_land()" of an except clause; a KeyboardInterrupt
\* inside the clause leaves the runner
HandlerLand(at, next, step) ==
    /\ IsRunner
    /\ pc = at
    /\ \/ /\ cmds' = Append(cmds, RunnerCall(EmergencyVerb, step))
          /\ pc' = next
          /\ UNCHANGED <<raised, interrupts>>
       \/ /\ Interrupt
          /\ \E called \in BOOLEAN :
                cmds' = IF called
                        THEN Append(cmds, RunnerCall(EmergencyVerb, step))
                        ELSE cmds
          /\ raised' = raised
          /\ pc' = "raised"
    /\ UNCHANGED <<result, exit_code>>
    /\ RunnerFrame

\* the exit code of an except clause: its return value in the sim_test
\* runners; in run_simulator the clause returns False and main returns 1
HandlerCode(code) == IF planner = "sim_test" THEN code ELSE "1"

\* an except clause that returns without a disconnect
HandlerReturnOnly(at, step, code) ==
    /\ IsRunner
    /\ pc = at
    /\ exit_code' = HandlerCode(code)
    /\ pc' = "returned"
    /\ UNCHANGED <<cmds, result, raised, interrupts>>
    /\ RunnerFrame

\* "mission.disconnect()" and the return of an except clause
HandlerDisconnect(at, step, code) ==
    /\ IsRunner
    /\ pc = at
    /\ \/ /\ cmds' = Append(cmds, RunnerCall("disconnect", step))
          /\ exit_code' = HandlerCode(code)
          /\ pc' = "returned"
          /\ UNCHANGED <<raised, interrupts>>
       \/ /\ Interrupt
          /\ \E called \in BOOLEAN :
                cmds' = IF called
                        THEN Append(cmds, RunnerCall("disconnect", step))
                        ELSE cmds
          /\ raised' = raised
          /\ exit_code' = exit_code
          /\ pc' = "raised"
    /\ result' = result
    /\ RunnerFrame

\* except KeyboardInterrupt
InterruptLand == HandlerLand("interrupt_land", "interrupt_disconnect", "interrupt")

InterruptDisconnect == HandlerDisconnect("interrupt_disconnect", "interrupt", "2")

\* except Exception
ErrorLand == HandlerLand("error_land", "error_disconnect", "error")

ErrorDisconnect == HandlerDisconnect("error_disconnect", "error", "3")

\* the finally clause of test_waypoint_mission: disconnect_drone, then the
\* function returns or the exception goes on to its caller
RunFinally ==
    /\ IsRunner
    /\ pc = "finally"
    /\ \/ /\ cmds' = Append(cmds, RunnerCall("disconnect", "finally"))
          /\ pc' = IF raised = "none" THEN "returned" ELSE "raised"
          /\ UNCHANGED <<raised, interrupts>>
       \/ /\ Interrupt
          /\ \E called \in BOOLEAN :
                cmds' = IF called
                        THEN Append(cmds, RunnerCall("disconnect", "finally"))
                        ELSE cmds
          /\ raised' = raised
          /\ pc' = "raised"
    /\ UNCHANGED <<result, exit_code>>
    /\ RunnerFrame

\* how execute_mission ended, for a runner that returned
Outcome ==
    CASE raised = "KeyboardInterrupt" -> "interrupt"
      [] raised = "Exception" -> "exception"
      [] result = "True" -> "success"
      [] OTHER -> "failed"

\* the runner is started once more, as a new process on the same
\* configuration; the exit code of the run that ended is kept in codes
RunnerAgain ==
    /\ IsRunner
    /\ pc = "returned"
    /\ cmds # <<>>
    /\ codes' = IF planner \in ControllerRunners
                THEN [codes EXCEPT ![Outcome] = @ \cup {exit_code}]
                ELSE codes
    /\ pc' = "start"
    /\ cmds' = <<>>
    /\ result' = "none"
    /\ raised' = "none"
    /\ interrupts' = 0
    /\ exit_code' = "none"
    /\ UNCHANGED <<planner, simulator_mode, emergency_stop, fast_mode,
                   side_length, corners_visited, photo_count, wpvars,
                   gridvars, orbvars, twvars, battery, action_raised,
                   has_driver>>

RunnerNext ==
    \/ RunnerAgain
    \/ RunnerStart
    \/ RunExecute
    \/ RunDisconnect
    \/ RunReturn
    \/ InterruptLand
    \/ InterruptDisconnect
    \/ ErrorLand
    \/ ErrorDisconnect
    \/ RunFinally

RunnerSpec == RunnerInit /\ [][RunnerNext]_vars

----------------------------------------------------------------------------
(* SquareFlightMission (test_missions/square_flight_sim.py): a             *)
(* DroneController flying a square.  takeoff and land go through           *)
(* TelloWrapper, which catches a driver failure; the moves and turns are   *)
(* called on self.drone inside the try block of execute_mission.           *)

SquareSides == {40, 80}

IsSquareMission == planner = "SquareFlightMission"

\* one call on the driver by the square mission, as recorded in cmds
SquareCmd(verb, arg, step, ok) ==
    [verb |-> verb, arg |-> arg, step |-> step, ok |-> ok]

\* SquareFlightMission(side_length): corners_visited = 0
SquareMissionInit ==
    /\ planner = "SquareFlightMission"
    /\ side_length \in SquareSides
    /\ simulator_mode \in BOOLEAN
    /\ emergency_stop \in BOOLEAN
    /\ fast_mode \in BOOLEAN
    /\ corners_visited = 0
    /\ interrupts = 0
    /\ exit_code = "none"
    /\ codes = NoCodes
    /\ pc = "idle"
    /\ cmds = <<>>
    /\ result = "none"
    /\ raised = "none"
    /\ photo_count = 0
    /\ waypoints = <<>>
    /\ i = 0
    /\ current_x = 0 /\ current_y = 0 /\ current_z = 0
    /\ current_heading = 0
    /\ self_pos = <<0, 0, 0>>
    /\ self_heading = 0
    /\ flying = FALSE
    /\ grid_size = 0 /\ grid_spacing = 0 /\ overlap = 0
    /\ photo_spacing = 0 /\ photos_per_cell = 0
    /\ row = 0 /\ col = 0 /\ micro_i = 0 /\ micro_j = 0
    /\ NoOrbit
    /\ NoWrapper
    /\ battery = NoReading
    /\ action_raised = {}
    /\ has_driver = FALSE

\* what a step of the square mission leaves alone
SquareFrame ==
    UNCHANGED <<planner, simulator_mode, emergency_stop, fast_mode,
                side_length, interrupts, exit_code, codes, photo_count,
                wpvars, gridvars, orbvars, twvars, battery, action_raised,
                has_driver>>

\* "self.takeoff()": TelloWrapper.takeoff catches a driver failure and the
\* mission does not read what it returns
SquareTakeoff ==
    /\ IsSquareMission
    /\ pc = "idle"
    /\ \E ok \in BOOLEAN :
          cmds' = Append(cmds, SquareCmd("takeoff", 0, "takeoff", ok))
    /\ pc' = "corner1"
    /\ UNCHANGED <<result, raised, corners_visited>>
    /\ SquareFrame

\* _take_corner_photo: on the simulator the corner is counted; on the drone
\* it is counted after take_photo, which catches what its driver calls
\* raise and returns None
SquareCorner(at, next) ==
    /\ IsSquareMission
    /\ pc = at
    /\ corners_visited' = corners_visited + 1
    /\ pc' = next
    /\ UNCHANGED <<cmds, result, raised>>
    /\ SquareFrame

\* a call on self.drone inside the try block: it returns and the mission
\* goes on at next, or it raises and control passes to the except clause
SquareCall(verb, arg, at, next) ==
    /\ IsSquareMission
    /\ pc = at
    /\ \E ok \in BOOLEAN :
          /\ cmds' = Append(cmds, SquareCmd(verb, arg, at, ok))
          /\ pc' = IF ok THEN next ELSE "except"
          /\ raised' = IF ok THEN raised ELSE at
    /\ UNCHANGED <<result, corners_visited>>
    /\ SquareFrame

\* "self.drone.fly_forward(self.side_length, "cm")"
SquareSide(at, next) == SquareCall("fly_forward", side_length, at, next)

\* "self.drone.yaw_right(90)"
SquareTurn(at, next) == SquareCall("yaw_right", 90, at, next)

\* "self.land()": TelloWrapper.land catches a driver failure; return True
SquareLand ==
    /\ IsSquareMission
    /\ pc = "land"
    /\ \E ok \in BOOLEAN :
          cmds' = Append(cmds, SquareCmd("land", 0, "land", ok))
    /\ result' = "True"
    /\ pc' = "done"
    /\ UNCHANGED <<raised, corners_visited>>
    /\ SquareFrame

\* the except clause: emergency_land, which catches a failure; return False
SquareEmergencyLand ==
    /\ IsSquareMission
    /\ pc = "except"
    /\ \E ok \in BOOLEAN :
          cmds' = Append(cmds, SquareCmd(EmergencyVerb, 0, "except", ok))
    /\ result' = "False"
    /\ pc' = "done"
    /\ UNCHANGED <<raised, corners_visited>>
    /\ SquareFrame

\* execute_mission, statement by statement
SquareMissionNext ==
    \/ SquareTakeoff
    \/ SquareCorner("corner1", "side1")
    \/ SquareSide("side1", "corner2")
    \/ SquareCorner("corner2", "turn1")
    \/ SquareTurn("turn1", "side2")
    \/ SquareSide("side2", "corner3")
    \/ SquareCorner("corner3", "turn2")
    \/ SquareTurn("turn2", "side3")
    \/ SquareSide("side3", "corner4")
    \/ SquareCorner("corner4", "turn3")
    \/ SquareTurn("turn3", "side4")
    \/ SquareSide("side4", "turn4")
    \/ SquareTurn("turn4", "land")
    \/ SquareLand
    \/ SquareEmergencyLand

SquareMissionSpec == SquareMissionInit /\ [][SquareMissionNext]_vars

----------------------------------------------------------------------------
(* The four missions side by side: the waypoint planners on the square     *)
(* mission of main(), the grid mission, the orbital mission and the square *)
(* mission.                                                                *)

MissionsInit == Init \/ GridInit \/ OrbitInit \/ SquareMissionInit

PlannerMission == planner \in {"MissionPlanner", "WaypointMissionPlanner"}
GridMission == planner = "GridFlightMission"
OrbitMission == planner = "OrbitalFlightMission"

MissionsNext ==
    \/ PlannerMission /\ SquareNext
    \/ GridMission /\ GridNext
    \/ OrbitMission /\ OrbitNext
    \/ SquareMissionNext

MissionsSpec == MissionsInit /\ [][MissionsNext]_vars

----------------------------------------------------------------------------
(* Settle delays of the missions.  A mission sleeps after each command it *)
(* issues, by fast_sleep (tello_wrapper.py) or by time.sleep.              *)

\* the sleep that follows a command that never sleeps
NoSleepAfter(c) == 0

\* the argument, times 1000, of the sleep that follows command c of
\* execute_mission when the command returns
SleepAfter(c) ==
    CASE planner = "WaypointMissionPlanner" ->
           (CASE c.step \in {"takeoff", "rtl_fwd"} -> 2 * Milli
              [] c.step \in {"alt", "rot", "fwd", "hdg", "rtl_rot"} -> 1500
              [] OTHER -> 0)
      [] planner = "MissionPlanner" ->
           (CASE c.step = "takeoff" -> 3 * Milli
              [] c.step \in {"alt", "rot", "fwd", "hdg", "rtl_rot",
                             "rtl_fwd"} -> 2 * Milli
              [] OTHER -> 0)
      [] planner = "GridFlightMission" ->
           (CASE c.step = "cell" -> 200
              [] c.step \in {"micro", "retrace"} -> 100
              [] c.step = "home" -> 500
              [] OTHER -> 0)
      [] planner = "OrbitalFlightMission" /\ variant = "test_missions" ->
           (CASE c.step \in {"out", "face", "travel", "go_home"} -> 500
              [] c.step \in {"tangent", "recenter", "turn_home"} -> 300
              [] OTHER -> 0)
      [] planner = "OrbitalFlightMission" ->
           (CASE c.step \in {"out", "face", "travel", "go_home"} -> 2 * Milli
              [] c.step \in {"tangent", "recenter", "turn_home"} -> Milli
              [] OTHER -> 0)
      [] planner = "SquareFlightMission" ->
           (CASE c.step \in {"side1", "side2", "side3", "side4",
                             "turn1", "turn2", "turn3", "turn4"} -> 500
              [] OTHER -> 0)
      [] OTHER -> 0

\* the sleep that follows command c is a fast_sleep
ByFastSleep(c) ==
    \/ planner \in {"WaypointMissionPlanner", "GridFlightMission",
                    "SquareFlightMission"}
    \/ planner = "OrbitalFlightMission" /\ variant = "test_missions"

\* the time that elapses after command c before execute_mission goes on,
\* with DRONE_FAST_MODE set or not; a command that raised is followed by
\* the except clause
Elapsed(c, fast) ==
    IF ~c.ok THEN 0
    ELSE IF ByFastSleep(c) THEN FastSleep(SleepAfter(c), fast)
         ELSE TimeSleep(SleepAfter(c))

----------------------------------------------------------------------------
(* Properties of the waypoint planners *)

Last(s) == s[Len(s)]

\* the driver calls made by the given steps of execute_mission, in order
StepCmds(steps) == SelectSeq(cmds, LAMBDA c : c.step \in steps)

\* the driver calls of the return-to-launch step
ReturnCmds == StepCmds({"rtl_rot", "rtl_fwd"})

LastWaypoint == waypoints[Len(waypoints)]

\* the waypoint before waypoint n; the launch point before the first
PrevX(n) == IF n = 1 THEN 0 ELSE waypoints[n - 1].x
PrevY(n) == IF n = 1 THEN 0 ELSE waypoints[n - 1].y
Moved(n) == waypoints[n].x # PrevX(n) \/ waypoints[n].y # PrevY(n)
TargetOf(n) == TargetHeading(waypoints[n].x - PrevX(n), waypoints[n].y - PrevY(n))

\* execute_mission has processed n >= 1 waypoints and nothing was raised
Processed(n) ==
    /\ raised = "none"
    /\ pc \in {"alt", "rtl"}
    /\ i = n + 1
    /\ n >= 1

\* C1: for the square mission of main(), a run of execute_mission that
\* returns True has issued exactly 4 forward commands of length 80 and
\* exactly 4 clockwise rotations of 90 degrees for the waypoints, and its
\* return-to-launch step has issued no command at all.
C1_SquareCommands ==
    (waypoints = SquareMission /\ pc = "done" /\ result = "True") =>
        LET fwd == StepCmds({"fwd"})
            rot == StepCmds({"rot", "hdg"})
        IN  /\ Len(fwd) = 4
            /\ \A k \in 1..Len(fwd) :
                  fwd[k].verb \in ForwardVerbs /\ fwd[k].arg = 80
            /\ Len(rot) = 4
            /\ \A k \in 1..Len(rot) :
                  rot[k].verb \in ClockwiseVerbs /\ rot[k].arg = 90
            /\ ReturnCmds = <<>>

\* C2: while the return-to-launch step runs with the dead-reckoned (x, y)
\* at most 20 cm from the origin, no step of it issues a forward command.
C2_DeadZone ==
    [][ ( /\ pc \in {"rtl", "rtl_fwd"}
          /\ current_x * current_x + current_y * current_y <= DeadZone * DeadZone )
        => \A k \in (Len(cmds) + 1)..Len(cmds') :
              cmds'[k].verb \notin ForwardVerbs ]_vars

\* a run is about to land 20 cm from the launch point, inside the dead zone
C2_Witness ==
    /\ pc = "land"
    /\ raised = "none"
    /\ current_x = 0
    /\ current_y = DeadZone
    /\ \A k \in 1..Len(cmds) : cmds[k].step # "rtl_fwd"

\* the mission ended more than 20 cm from the launch point and the run has
\* come to the landing without an exception
ReturnDue ==
    /\ pc = "land"
    /\ raised = "none"
    /\ LastWaypoint.x * LastWaypoint.x + LastWaypoint.y * LastWaypoint.y
          > DeadZone * DeadZone

C4_RotationIssued ==
    \A k \in 1..Len(cmds) :
        cmds[k].verb \in RotateVerbs =>
            LET r == cmds[k].rotation
            IN  /\ -HalfTurn < r /\ r <= HalfTurn
                /\ r > 0 => cmds[k].verb \in ClockwiseVerbs /\ cmds[k].arg * Milli = r
                /\ r < 0 => cmds[k].verb \in CounterClockwiseVerbs /\ cmds[k].arg * Milli = -r

\* C5: while a waypoint whose (x, y) equals the dead-reckoned (x, y) is at
\* its rotation-to-target or translate step, the step issues no command.
C5_NoMoveNoCommand ==
    [][ ( /\ pc \in {"rot", "fwd"}
          /\ waypoints[i].x = current_x
          /\ waypoints[i].y = current_y )
        => cmds' = cmds ]_vars

\* the second waypoint repeats the position of the first: the first was
\* flown to, the second got neither a rotation to target nor a translate
C5_Witness ==
    /\ pc = "photo"
    /\ i = 2
    /\ raised = "none"
    /\ Moved(1)
    /\ ~Moved(2)
    /\ \E k \in 1..Len(cmds) : cmds[k].step = "fwd" /\ cmds[k].wp = 1
    /\ \A k \in 1..Len(cmds) : cmds[k].wp = 2 => cmds[k].step \in {"alt", "hdg"}

\* the target heading most recently computed up to waypoint n (one is
\* computed only for a waypoint that needs a horizontal move)
RECURSIVE LastTarget(_)
LastTarget(n) ==
    IF n = 0 THEN 0
    ELSE IF Moved(n) THEN TargetOf(n) ELSE LastTarget(n - 1)

\* C6 as stated: after n waypoints of a run without failure the pose is
\* the n-th waypoint's (x, y, z), with the waypoint's heading when it has
\* one and the last computed target heading otherwise.
C6_PoseAfterWaypoint ==
    \A n \in 1..Len(waypoints) :
        Processed(n) =>
            /\ current_x = waypoints[n].x
            /\ current_y = waypoints[n].y
            /\ current_z = waypoints[n].z
            /\ current_heading =
                  IF waypoints[n].heading # NoHeading
                  THEN waypoints[n].heading[1] * Milli
                  ELSE LastTarget(n)

\* the heading the planner holds after n waypoints
RECURSIVE HeadingAfter(_)
HeadingAfter(n) ==
    IF n = 0 THEN 0
    ELSE IF waypoints[n].heading # NoHeading
         THEN waypoints[n].heading[1] * Milli
         ELSE IF Moved(n) /\ (TargetOf(n) - HeadingAfter(n - 1)) % FullTurn # 0
              THEN TargetOf(n)
              ELSE HeadingAfter(n - 1)

\* C6 amended: after n waypoints of a run without failure the pose is the
\* n-th waypoint's (x, y, z); the heading is the waypoint's heading when it
\* has one, otherwise the target heading of the move to the waypoint when
\* that move needed a rotation, and otherwise the heading held before the
\* waypoint (0 before the first).
C6_PoseAndHeadingAfterWaypoint ==
    \A n \in 1..Len(waypoints) :
        Processed(n) =>
            /\ current_x = waypoints[n].x
            /\ current_y = waypoints[n].y
            /\ current_z = waypoints[n].z
            /\ current_heading = HeadingAfter(n)

\* a waypoint without heading and without horizontal move follows a
\* waypoint whose explicit heading differs from the target of its move
C6_Witness ==
    /\ Processed(2)
    /\ waypoints[2].heading = NoHeading
    /\ ~Moved(2)
    /\ waypoints[1].heading # NoHeading
    /\ Moved(1)
    /\ current_heading # TargetOf(1)

\* C7: the dead-reckoned heading, local and of the planner object, is
\* always in [0, 360).
C7_HeadingNormalized ==
    /\ 0 <= current_heading /\ current_heading < FullTurn
    /\ 0 <= self_heading /\ self_heading < FullTurn

\* the steps of the per-waypoint loop and of the return to launch
FlightSteps == {"alt", "rot", "fwd", "hdg", "rtl_rot", "rtl_fwd"}

\* C8: an exception of the per-waypoint loop or of the return to launch
\* passes control to the except clause, which attempts a land, whatever
\* its outcome, and returns False; and execute_mission never returns after
\* a takeoff without a land issued after it.
C8_FailureLands ==
    /\ raised # "none" => pc \in {"except", "done"}
    /\ (pc = "done" /\ raised \in FlightSteps) =>
          /\ result = "False"
          /\ Last(cmds).verb = "land"
          /\ Last(cmds).step = "except"
    /\ pc = "done" =>
          \A k \in 1..Len(cmds) :
              cmds[k].verb = "takeoff" =>
                  \E j \in (k + 1)..Len(cmds) : cmds[j].verb = "land"

\* a forward command raised and the emergency land failed as well
C8_Witness ==
    /\ pc = "done"
    /\ raised = "fwd"
    /\ result = "False"
    /\ Last(cmds).verb = "land"
    /\ ~Last(cmds).ok


----------------------------------------------------------------------------
(* Properties of the grid mission *)

\* the sum of the arguments of the commands of seq with the given verb
RECURSIVE SumOf(_, _)
SumOf(seq, verb) ==
    IF seq = <<>> THEN 0
    ELSE (IF seq[1].verb = verb THEN seq[1].arg ELSE 0) + SumOf(Tail(seq), verb)

\* forward minus back, and right minus left
NetForward(seq) == SumOf(seq, "fly_forward") - SumOf(seq, "fly_backward")
NetRight(seq) == SumOf(seq, "fly_right") - SumOf(seq, "fly_left")

\* C9: when the grid mission returns True, the moves of the sweep together
\* with the return-home moves sum to (0, 0), and with one photo per cell
\* (no move inside a cell) so do all the translate commands it issued
\* between takeoff and land.
C9_GridReturnsToOrigin ==
    (planner = "GridFlightMission" /\ pc = "done" /\ result = "True") =>
        /\ NetForward(StepCmds({"cell", "home"})) = 0
        /\ NetRight(StepCmds({"cell", "home"})) = 0
        /\ photos_per_cell = 1 => NetForward(cmds) = 0 /\ NetRight(cmds) = 0

\* C10: once the retrace of a cell with photos_per_cell > 1 is issued, the
\* micro-step and retrace commands of that cell sum to (0, 0).
C10_MicroRetrace ==
    planner = "GridFlightMission" =>
        \A k \in 1..Len(cmds) :
            (cmds[k].step = "retrace" /\ cmds[k].verb = "fly_left" /\ cmds[k].ok) =>
                LET incell(c) == /\ c.step \in {"micro", "retrace"}
                                 /\ c.row = cmds[k].row
                                 /\ c.col = cmds[k].col
                    cell == SelectSeq(SubSeq(cmds, 1, k), incell)
                IN  NetForward(cell) = 0 /\ NetRight(cell) = 0


\* C13: after __init__, photo_spacing is max(10, round(grid_spacing * (1 -
\* overlap))), round being a nearest integer (either one at a tie), and
\* photos_per_cell is max(1, floor(grid_spacing / photo_spacing)).
IsNearest(r, num, den) == 2 * Abs(den * r - num) <= den

C13_DerivedParameters ==
    (planner = "GridFlightMission" /\ pc = "idle" /\ cmds = <<>>) =>
        /\ \E r \in 0..grid_spacing :
              /\ IsNearest(r, grid_spacing * (Eighths - overlap), Eighths)
              /\ photo_spacing = IF r < 10 THEN 10 ELSE r
        /\ photos_per_cell =
              IF grid_spacing \div photo_spacing < 1 THEN 1
              ELSE grid_spacing \div photo_spacing

----------------------------------------------------------------------------
(* Properties of the orbital mission *)

IsOrbit == planner = "OrbitalFlightMission"

\* the heading after the commands of seq: the running sum of the rotation
\* commands, clockwise positive
RECURSIVE HeadingSum(_)
HeadingSum(seq) ==
    IF seq = <<>> THEN 0
    ELSE HeadingSum(SubSeq(seq, 1, Len(seq) - 1))
         + (IF Last(seq).verb = "yaw_right" THEN Last(seq).arg
            ELSE IF Last(seq).verb = "yaw_left" THEN -Last(seq).arg
            ELSE 0)

\* the heading on which the k-th command of the log is flown
HeadingAt(k) == HeadingSum(SubSeq(cmds, 1, k - 1))

\* C11: the return translate of the orbital mission is flown on the heading
\* opposite, modulo 360, to the heading of the outward translate.
C11_ReturnReversesOutward ==
    IsOrbit =>
        \A k \in 1..Len(cmds) : \A o \in 1..Len(cmds) :
            (cmds[k].step = "go_home" /\ cmds[o].step = "out") =>
                /\ cmds[k].verb = "fly_forward"
                /\ cmds[k].arg = radius
                /\ (HeadingAt(k) - HeadingAt(o)) % 360 = 180

\* the steps of the commands of a whole orbital run, in order
RECURSIVE OrbitLegs(_)
OrbitLegs(n) ==
    IF n = 0 THEN <<>>
    ELSE OrbitLegs(n - 1) \o <<"tangent", "travel", "recenter">>
ExpectedOrbit ==
    <<"takeoff", "out", "face">> \o OrbitLegs(points - 1)
        \o <<"turn_home", "go_home", "land">>

\* C12: as long as no command raises, the orbital mission issues, in
\* order, one outward translate of length radius and one rotation of 180
\* degrees, then for each of the remaining points - 1 points one rotation
\* of 90 degrees, one translate and one rotation of 90 degrees; each of
\* the rotations towards the center is followed by one photo capture
\* before the next command, points captures in a whole run.
C12_OrbitSequence ==
    (IsOrbit /\ raised = "none") =>
        LET yaw == {"yaw_right", "yaw_left"}
            centered == {k \in 1..Len(cmds) : cmds[k].step \in {"face", "recenter"}}
        IN  /\ Len(cmds) <= Len(ExpectedOrbit)
            /\ \A k \in 1..Len(cmds) :
                  /\ cmds[k].step = ExpectedOrbit[k]
                  /\ cmds[k].step = "out" =>
                        cmds[k].verb = "fly_forward" /\ cmds[k].arg = radius
                  /\ cmds[k].step = "face" =>
                        cmds[k].verb \in yaw /\ cmds[k].arg = 180
                  /\ cmds[k].step \in {"tangent", "recenter"} =>
                        cmds[k].verb \in yaw /\ cmds[k].arg = 90
                  /\ cmds[k].step = "travel" => cmds[k].verb = "fly_forward"
            /\ photo_count = Cardinality(centered) - (IF pc = "photo" THEN 1 ELSE 0)
            /\ pc = "done" =>
                  /\ Len(cmds) = Len(ExpectedOrbit)
                  /\ photo_count = points

\* the run of orbital_sim_test.py, radius 80 and 6 points, has returned
C12_Witness ==
    /\ IsOrbit
    /\ radius = 80
    /\ points = 6
    /\ pc = "done"
    /\ result = "True"
    /\ photo_count = 6
    /\ Len(cmds) = 21

----------------------------------------------------------------------------
(* Properties of TelloWrapper *)

MotionPrimitives == Moves \cup Rotations

\* C14: a move or rotate primitive called while the wrapper is not
\* connected or the vehicle is not airborne fails with an
\* InvalidStateError and forwards no command to the driver.
C14_StateValidation ==
    (planner = "TelloWrapper" /\ last_call.prim \in MotionPrimitives
        /\ (~last_call.conn \/ ~last_call.air)) =>
        /\ last_call.sent = <<>>
        /\ last_call.ret = "InvalidStateError"

\* C15: every primitive returns to its caller without an exception, and
\* what it returns is a boolean that is False exactly when a call it made
\* on the driver raised.
DriverFailed(call) == \E k \in 1..Len(call.sent) : ~call.sent[k].ok

C15_FailureContained ==
    (planner = "TelloWrapper" /\ last_call.prim # "none") =>
        /\ last_call.ret # "raise"
        /\ last_call.ret \in {"True", "False"}
        /\ last_call.ret = "False" <=> DriverFailed(last_call)

----------------------------------------------------------------------------
(* Properties of the waypoint planners: failures and the mission bracket *)

IsPlanner == planner \in {"MissionPlanner", "WaypointMissionPlanner"}

\* the steps of the per-waypoint loop that call the driver
LoopSteps == {"alt", "rot", "fwd", "hdg"}

\* C16: a motion or rotation command of the per-waypoint loop that fails
\* at the driver does not pass control to the except clause, and the run
\* goes on through every waypoint to the land of a completed mission.
C16_MotionFailureNonFatal ==
    (IsPlanner /\ \E k \in 1..Len(cmds) :
                      cmds[k].step \in LoopSteps /\ ~cmds[k].ok) =>
        /\ pc # "except"
        /\ pc = "done" =>
              /\ i = Len(waypoints) + 1
              /\ Last(cmds).step = "land"
              /\ result = "True"

\* C17: when connect_drone ended without a connection, execute_mission
\* issues no command at all (no takeoff, no land, no motion) and returns
\* False.
C17_ConnectFailureAborts ==
    (IsPlanner /\ pc \notin {"idle", "connect"} /\ waypoints # <<>>
        /\ ~connected) =>
        /\ cmds = <<>>
        /\ pc = "done" => result = "False"

\* execute_mission is past its battery precheck
PastPrecheck ==
    /\ IsPlanner
    /\ waypoints # <<>>
    /\ pc \notin {"idle", "connect", "battery"}
    /\ raised # "connect"

\* C18: on the real drone a battery reading is taken, and a reading below
\* min_battery makes execute_mission return False with no command issued;
\* on the simulator no reading is taken and the mission goes on to takeoff.
C18_BatteryPrecheck ==
    PastPrecheck =>
        IF simulator_mode
        THEN /\ battery = NoReading
             /\ pc = "takeoff" \/ (cmds # <<>> /\ cmds[1].verb = "takeoff")
        ELSE /\ battery # NoReading
             /\ battery[1] < MinBattery =>
                   pc = "done" /\ result = "False" /\ cmds = <<>>

\* the real drone reported 20 percent and execute_mission returned False
C18_Witness ==
    /\ PastPrecheck
    /\ ~simulator_mode
    /\ battery = ReadingOf(20)
    /\ pc = "done"
    /\ result = "False"
    /\ cmds = <<>>

\* C19: the step that runs the custom action of a waypoint never passes
\* control to the except clause: whether the action raised or returned, it
\* leaves the commands issued, the pose, the photo count and the return
\* value as they were and goes on to the next waypoint or to the return to
\* launch; and a run in which only actions raised ends with land and True.
C19_ActionIsolated ==
    /\ [][(IsPlanner /\ pc = "action") =>
            /\ pc' = (IF i < Len(waypoints) THEN "alt" ELSE "rtl")
            /\ i' = i + 1
            /\ UNCHANGED <<cmds, raised, result, photo_count, current_x,
                           current_y, current_z, current_heading, self_pos,
                           self_heading, flying, waypoints>>]_vars
    /\ [](raised # "action")
    /\ []((IsPlanner /\ pc = "done" /\ raised = "none" /\ action_raised # {}) =>
            /\ result = "True"
            /\ Last(cmds).step = "land")

\* the action of the first of two waypoints raised; the second waypoint
\* was flown and the mission landed and returned True
C19_Witness ==
    /\ IsPlanner
    /\ pc = "done"
    /\ result = "True"
    /\ action_raised = {1}
    /\ Len(waypoints) = 2
    /\ \E k \in 1..Len(cmds) : cmds[k].wp = 2
    /\ Last(cmds).step = "land"

\* the positions in cmds of the commands with the given verb
Positions(verb) == {k \in 1..Len(cmds) : cmds[k].verb = verb}

\* C20: connect_drone is called only when the planner has no driver yet
\* and has been called before any takeoff; takeoff is the first command of
\* a run whose connect did not raise, so it precedes every motion and
\* rotation command; and when execute_mission returns True, every waypoint
\* and the return to launch are past and the one land is the last command.
C20_MissionBracket ==
    IsPlanner =>
        /\ pc = "connect" => ~has_driver
        /\ Positions("takeoff") # {} => has_driver
        /\ (cmds # <<>> /\ raised # "connect") =>
              Positions("takeoff") = {1}
        /\ (pc = "done" /\ result = "True") =>
              /\ i = Len(waypoints) + 1
              /\ Positions("land") = {Len(cmds)}
              /\ Last(cmds).step = "land"

\* the square mission of main() flown to the end: takeoff first, the fifth
\* waypoint reached, land last
C20_Witness ==
    /\ IsPlanner
    /\ waypoints = SquareMission
    /\ pc = "done"
    /\ result = "True"
    /\ cmds[1].verb = "takeoff"
    /\ Last(cmds).verb = "land"
    /\ \E k \in 1..Len(cmds) : cmds[k].step = "rtl_fwd" \/ cmds[k].wp = 5

----------------------------------------------------------------------------
(* Properties of the mission runners *)

\* the runner called execute_mission
Executed == Positions("execute_mission") # {}

\* the runner has ended: it returned, or an exception left it
Ended == pc \in {"returned", "raised"}

\* an exception left execute_mission and nothing interrupted the runner
\* after that
MissionRaised ==
    /\ result = "none"
    /\ \/ raised = "Exception" /\ interrupts = 0
       \/ raised = "KeyboardInterrupt" /\ interrupts = 1

\* C21: a runner that called execute_mission and returns has called
\* disconnect after it; the waypoint test runners have done so even when
\* the exception of the mission goes on to their caller.
C21_DisconnectAttempted ==
    (IsRunner /\ Executed) =>
        /\ pc = "returned" => \E k \in Positions("disconnect") : k > 1
        /\ (planner = "waypoint_test" /\ pc = "raised" /\ MissionRaised) =>
              \E k \in Positions("disconnect") : k > 1

\* execute_mission was interrupted, the except clause landed and
\* disconnected, and main returned 2
C21_Witness ==
    /\ planner = "sim_test"
    /\ pc = "returned"
    /\ raised = "KeyboardInterrupt"
    /\ exit_code = "2"
    /\ Len(cmds) = 3
    /\ cmds[1].verb = "execute_mission"
    /\ Last(cmds).verb = "disconnect"

\* the one KeyboardInterrupt of the run arrived inside execute_mission
InterruptedMission ==
    /\ IsRunner
    /\ Executed
    /\ result = "none"
    /\ raised = "KeyboardInterrupt"
    /\ interrupts = 1

\* the runner catches the exceptions that leave execute_mission
CatchingRunner == planner \in ControllerRunners

FailureOutcomes == Outcomes \ {"success"}

\* C23: over the runs of a runner with an exit code, 0 is the code of the
\* runs whose execute_mission returned True and of no other, and no code
\* is shared by two of clean failure, interrupt and exception.
C23_ExitCodes ==
    (IsRunner /\ planner \in ControllerRunners) =>
        /\ codes["success"] \subseteq {"0"}
        /\ \A a \in FailureOutcomes : "0" \notin codes[a]
        /\ \A a, b \in FailureOutcomes :
              a # b => codes[a] \cap codes[b] = {}

----------------------------------------------------------------------------
(* Properties of the settle delays *)

\* the motion and rotation methods of the two drivers
MotionVerbs ==
    {"fly_forward", "fly_backward", "fly_left", "fly_right", "fly_up",
     "fly_down", "yaw_right", "yaw_left"} \cup Moves \cup Rotations

IsMotion(c) == c.verb \in MotionVerbs

IsMission ==
    PlannerMission \/ GridMission \/ OrbitMission \/ IsSquareMission

\* the commands of the log that are followed in it by a motion or rotation
\* command and are one themselves
BeforeMotion ==
    {k \in 1..(Len(cmds) - 1) : IsMotion(cmds[k]) /\ IsMotion(cmds[k + 1])}

\* C24: in every mission, a motion or rotation command that is followed by
\* another one returned, and a settle delay longer than zero elapsed after
\* it, in fast mode and in normal mode.
C24_SettleBetweenCommands ==
    IsMission =>
        \A k \in BeforeMotion :
            /\ cmds[k].ok
            /\ \A fast \in BOOLEAN : Elapsed(cmds[k], fast) > 0

\* the orbital mission has turned, travelled and turned again
C24_Witness ==
    /\ OrbitMission
    /\ Cardinality(BeforeMotion) >= 4
    /\ \E k \in BeforeMotion : cmds[k].step = "tangent"

\* the call forwarded a command to the driver, and the driver accepted it
Forwarded(call) ==
    /\ call.prim # "none"
    /\ call.sent # <<>>
    /\ call.sent[Len(call.sent)].ok

\* what the primitive sleeps in normal mode after a command the driver
\* accepted
NominalDelay(prim) ==
    IF prim \in {"takeoff", "land"} THEN PrimitiveSleep(prim, "True", FALSE)
    ELSE 0

\* a nominal delay scaled by the fast-mode flag
Scaled(nominal, fast) ==
    IF fast THEN Larger(FastFloor, (nominal * 25) \div 100) ELSE nominal

\* the primitives that command the vehicle
VehiclePrimitives == {"takeoff", "land"} \cup MotionPrimitives

\* C25: a takeoff, land, move or rotate primitive that forwarded its
\* command to the driver slept, for its nominal delay in normal mode and
\* for the larger of the floor and a quarter of it in fast mode.
C25_SettleDelay ==
    (planner = "TelloWrapper" /\ last_call.prim \in VehiclePrimitives
        /\ Forwarded(last_call)) =>
        /\ last_call.slept > 0
        /\ last_call.slept = Scaled(NominalDelay(last_call.prim), fast_mode)

----------------------------------------------------------------------------
(* Properties of the TelloWrapper object *)

IsWrapper == planner = "TelloWrapper"

\* C27: no primitive of a TelloWrapper changes its driver object or its
\* simulator_mode flag, and the driver is the one __init__ chose for the
\* flag.
C27_DriverFixed ==
    /\ [][IsWrapper => (drone' = drone /\ simulator_mode' = simulator_mode)]_vars
    /\ [](IsWrapper => drone = DriverClass(simulator_mode))

\* a connected wrapper of the real drone has disconnected
C27_Witness ==
    /\ IsWrapper
    /\ last_call.prim = "disconnect"
    /\ last_call.conn
    /\ ~connected
    /\ drone = "RealTello"

\* the verbs of the driver calls of a call, in order
SentVerbs(call) == [k \in 1..Len(call.sent) |-> call.sent[k].verb]

\* every driver call of a call but the last one returned
InnerAccepted(call) == \A k \in 1..(Len(call.sent) - 1) : call.sent[k].ok

\* C28: on the simulator connect returns True and leaves the wrapper
\* connected; a takeoff on a wrapper that is not connected runs connect
\* (on the drone: connect, set_speed, get_battery until one raises), which
\* sets connected, and then calls the driver's takeoff; takeoff and land
\* end with the driver call of their name and return True exactly when
\* that call did not raise.
C28_WrapperLifecycle ==
    IsWrapper =>
        /\ (simulator_mode /\ last_call.prim = "connect") =>
              last_call.ret = "True" /\ connected
        /\ (last_call.prim = "takeoff" /\ ~last_call.conn) =>
              /\ connected = InnerAccepted(last_call)
              /\ simulator_mode => SentVerbs(last_call) = <<"takeoff">>
              /\ ~simulator_mode =>
                    /\ Len(last_call.sent) >= 2
                    /\ last_call.sent[1].verb = "connect"
        /\ last_call.prim \in {"takeoff", "land"} =>
              /\ Last(last_call.sent).verb = last_call.prim
              /\ last_call.ret \in {"True", "False"}
              /\ last_call.ret = "True" <=> Last(last_call.sent).ok

\* a takeoff on a simulator wrapper that was not connected
C28_Witness ==
    /\ IsWrapper
    /\ simulator_mode
    /\ last_call.prim = "takeoff"
    /\ ~last_call.conn
    /\ connected
    /\ last_call.ret = "True"

----------------------------------------------------------------------------
(* Properties of SquareFlightMission *)

\* the verb and argument of each command of the log, in order
Issued == [k \in 1..Len(cmds) |-> <<cmds[k].verb, cmds[k].arg>>]

\* takeoff, four sides each followed by a turn to the right, land
SquarePattern ==
    LET side == <<"fly_forward", side_length>>
        turn == <<"yaw_right", 90>>
    IN  << <<"takeoff", 0>>, side, turn, side, turn, side, turn, side, turn,
           <<"land", 0>> >>

\* a driver command of the log raised
SomeRaised == \E k \in 1..Len(cmds) : ~cmds[k].ok

\* execute_mission has returned
SquareDone == IsSquareMission /\ pc = "done"

\* a run in which no driver command raised returns True after the square
\* pattern, with four corners recorded
SquareCleanRun ==
    (SquareDone /\ ~SomeRaised) =>
        /\ result = "True"
        /\ Issued = SquarePattern
        /\ corners_visited = 4

\* C29: a run of the square mission in which no driver command raised
\* returns True after takeoff, four forward translates of side_length each
\* followed by a clockwise turn of 90 degrees, and land, with four corners
\* recorded; a run in which a driver command raised has made the call of
\* the except clause and returns False.
C29_SquareMission ==
    /\ SquareCleanRun
    /\ (SquareDone /\ SomeRaised) =>
          /\ result = "False"
          /\ \E k \in 1..Len(cmds) : cmds[k].step = "except"

----------------------------------------------------------------------------
(* Properties of the waypoint queue *)

\* the step is a call of add_waypoint or clear_waypoints
QueueCall == pc = "idle" /\ pc' = "idle"

\* the waypoint indices of the commands of the per-waypoint loop, in order
VisitOrder ==
    LET loop == SelectSeq(cmds, LAMBDA c : c.step \in LoopSteps)
    IN  [k \in 1..Len(loop) |-> loop[k].wp]

\* C30: a call of add_waypoint appends one waypoint and leaves the others
\* as they are and where they are, a call of clear_waypoints empties the
\* mission, and no step of execute_mission changes the mission; the loop of
\* execute_mission takes the waypoints one by one from the first on (i is
\* the index of the one it is at, and one more than their number after the
\* last), its commands are issued in that order, and a run that returns
\* True has taken every one of them.
C30_WaypointQueue ==
    /\ [][ /\ QueueCall =>
                \/ waypoints' = <<>>
                \/ /\ Len(waypoints') = Len(waypoints) + 1
                   /\ SubSeq(waypoints', 1, Len(waypoints)) = waypoints
           /\ ~QueueCall =>
                /\ waypoints' = waypoints
                /\ i' \in {i, i + 1} ]_vars
    /\ [](IsWaypointPlanner =>
            /\ i <= Len(waypoints) + 1
            /\ \A k \in 1..Len(VisitOrder) :
                  /\ VisitOrder[k] \in 1..Len(waypoints)
                  /\ VisitOrder[k] <= i
                  /\ k > 1 => VisitOrder[k - 1] <= VisitOrder[k]
            /\ result = "True" => i = Len(waypoints) + 1)

\* a mission of two waypoints has been flown to its end, with commands
\* for both
C30_Witness ==
    /\ IsWaypointPlanner
    /\ pc = "done"
    /\ result = "True"
    /\ Len(waypoints) = 2
    /\ \E k \in 1..Len(VisitOrder) : VisitOrder[k] = 1
    /\ \E k \in 1..Len(VisitOrder) : VisitOrder[k] = 2

----------------------------------------------------------------------------
(* fast_sleep called on its own, with DRONE_FAST_MODE set or not.  Delays  *)
(* are multiples of 20 ms, so that a quarter of each is a whole number of  *)
(* milliseconds; they include every delay the repository passes.           *)

MaxSleepSteps == 100
SleepStep == 4 * 5
SleepInputs == {SleepStep * k : k \in 0..MaxSleepSteps}

SleepInit ==
    /\ planner = "fast_sleep"
    /\ fast_mode \in BOOLEAN
    /\ cmds = <<>>
    /\ pc = "idle"
    /\ waypoints = <<>>
    /\ i = 0
    /\ current_x = 0 /\ current_y = 0 /\ current_z = 0
    /\ current_heading = 0
    /\ self_pos = <<0, 0, 0>>
    /\ self_heading = 0
    /\ flying = FALSE
    /\ simulator_mode = FALSE
    /\ photo_count = 0
    /\ result = "none"
    /\ raised = "none"
    /\ grid_size = 0 /\ grid_spacing = 0 /\ overlap = 0
    /\ photo_spacing = 0 /\ photos_per_cell = 0
    /\ row = 0 /\ col = 0 /\ micro_i = 0 /\ micro_j = 0
    /\ NoOrbit
    /\ NoWrapper
    /\ battery = NoReading
    /\ action_raised = {}
    /\ has_driver = FALSE
    /\ codes = NoCodes
    /\ emergency_stop = TRUE
    /\ interrupts = 0
    /\ exit_code = "none"
    /\ side_length = 0
    /\ corners_visited = 0

SleepFrame ==
    UNCHANGED <<planner, waypoints, pc, i, current_x, current_y, current_z,
                current_heading, self_pos, self_heading, flying,
                simulator_mode, photo_count, result, raised, gridvars,
                orbvars, twvars, battery, action_raised, has_driver,
                emergency_stop, interrupts, exit_code, side_length,
                corners_visited, codes>>

\* os.environ["DRONE_FAST_MODE"] = "1" of main() under --fast-mode
SetFastMode ==
    /\ planner = "fast_sleep"
    /\ ~fast_mode
    /\ fast_mode' = TRUE
    /\ cmds' = cmds
    /\ SleepFrame

\* one call fast_sleep(seconds); cmds holds the last call: the nominal
\* delay, the flag it found and the time it slept
SleepCall ==
    /\ planner = "fast_sleep"
    /\ \E ms \in SleepInputs :
          cmds' = << [verb |-> "fast_sleep", arg |-> ms, fast |-> fast_mode,
                      slept |-> FastSleep(ms, fast_mode)] >>
    /\ fast_mode' = fast_mode
    /\ SleepFrame

SleepNext == SetFastMode \/ SleepCall

SleepSpec == SleepInit /\ [][SleepNext]_vars

----------------------------------------------------------------------------
(* Properties of the per-waypoint loop: the order of its steps *)

\* the place of a step in the loop body
StepRank(step) ==
    CASE step = "alt" -> 1
      [] step = "rot" -> 2
      [] step = "fwd" -> 3
      [] step = "hdg" -> 4
      [] step = "photo" -> 5
      [] step = "action" -> 6
      [] OTHER -> 0

InLoop == IsPlanner /\ StepRank(pc) > 0

\* the commands of the loop recorded so far belong to waypoints up to n
IssuedUpTo(n) ==
    \A k \in 1..Len(cmds) : cmds[k].step \in LoopSteps => cmds[k].wp <= n

\* C31: the steps of a waypoint run in the order altitude, rotation,
\* forward, heading, photo, action, and the next waypoint starts only after
\* the action step of the one before: the loop commands recorded are
\* ordered by waypoint and then by step, each is recorded by its own step
\* for the current waypoint, a photo is counted only by the photo step and
\* an action runs only in the action step, after the commands of its
\* waypoint and before any command of a later one.
C31_StepOrder ==
    /\ [](IsPlanner =>
            \A j, k \in 1..Len(cmds) :
                (j < k /\ cmds[j].step \in LoopSteps /\ cmds[k].step \in LoopSteps) =>
                    \/ cmds[j].wp < cmds[k].wp
                    \/ /\ cmds[j].wp = cmds[k].wp
                       /\ StepRank(cmds[j].step) < StepRank(cmds[k].step))
    /\ [][InLoop =>
            \/ i' = i /\ StepRank(pc') = StepRank(pc) + 1
            \/ pc = "action" /\ i' = i + 1 /\ pc' \in {"alt", "rtl"}
            \/ pc \in LoopSteps /\ i' = i /\ pc' = "except"]_vars
    /\ [][(IsPlanner /\ cmds' # cmds /\ Last(cmds').step \in LoopSteps) =>
            /\ Last(cmds').step = pc
            /\ Last(cmds').wp = i]_vars
    /\ [][(IsPlanner /\ photo_count' # photo_count) =>
            /\ pc = "photo" /\ pc' = "action"
            /\ waypoints[i].take_photo
            /\ cmds' = cmds
            /\ IssuedUpTo(i)]_vars
    /\ [][(IsPlanner /\ action_raised' # action_raised) =>
            /\ pc = "action"
            /\ action_raised' = action_raised \cup {i}
            /\ cmds' = cmds
            /\ IssuedUpTo(i)]_vars

\* a finished mission of two waypoints in which the first waypoint had all
\* four commands, its photo and its action, and the second was flown after
C31_Witness ==
    /\ IsPlanner
    /\ pc = "done"
    /\ result = "True"
    /\ Len(waypoints) = 2
    /\ \A s \in LoopSteps : \E k \in 1..Len(cmds) : cmds[k].step = s /\ cmds[k].wp = 1
    /\ photo_count >= 1
    /\ 1 \in action_raised
    /\ \E k \in 1..Len(cmds) : cmds[k].wp = 2

----------------------------------------------------------------------------
(* Properties of the per-waypoint loop: the length of the translate *)

\* the integer nearest to the square root of n: with r = floor(sqrt(n)),
\* sqrt(n) is nearer to r + 1 when n > r*r + r
RoundSqrt(n) ==
    LET r == IntSqrt(n)
    IN  IF n > r * r + r THEN r + 1 ELSE r

\* C32: the forward command of a waypoint has the length
\* round(sqrt(dx^2 + dy^2)), for the dx, dy of that loop iteration.
C32_TranslateDistance ==
    [][(IsPlanner /\ cmds' # cmds /\ Last(cmds').step = "fwd") =>
          Last(cmds').arg = RoundSqrt(Dx * Dx + Dy * Dy)]_vars

\* what the code issues: the square root truncated
C32_TranslateTruncated ==
    [][(IsPlanner /\ cmds' # cmds /\ Last(cmds').step = "fwd") =>
          /\ NeedsMove(Dx, Dy)
          /\ Last(cmds').arg = IntSqrt(Dx * Dx + Dy * Dy)]_vars

----------------------------------------------------------------------------
(* Properties of the grid mission: coverage *)

IsGrid == planner = "GridFlightMission"

\* the cell-to-cell moves recorded so far
CellCmds == StepCmds({"cell"})

\* the k-th cell (from 0) of a sweep of N x N cells: rows in increasing
\* order, columns ascending in even rows and descending in odd rows
SweepRow(k) == k \div grid_size
SweepCol(k) ==
    IF SweepRow(k) % 2 = 0 THEN k % grid_size
    ELSE grid_size - 1 - (k % grid_size)

\* the place of cell (r, c) in that sweep
SweepIndex(r, c) ==
    r * grid_size + (IF r % 2 = 0 THEN c ELSE grid_size - 1 - c)

\* the move that reaches the k-th cell, k >= 1
SweepVerb(k) ==
    IF k % grid_size = 0 THEN "fly_right"
    ELSE IF SweepRow(k) % 2 = 0 THEN "fly_forward" ELSE "fly_backward"

\* C33: the sweep goes through the N x N cells in boustrophedon order,
\* each once: the first cell has no move, the k-th cell is reached by the
\* k-th cell move, which is one fly_right of grid_spacing at the start of
\* a row and one move of grid_spacing along the row otherwise; while the
\* mission is at a cell, as many cell moves have been made as cells lie
\* before it and every earlier cell has its photos_per_cell squared photos;
\* the sweep leaves the loops after N*N - 1 moves, and a mission that
\* returns True has counted N*N*photos_per_cell*photos_per_cell photos.
C33_GridCoverage ==
    IsGrid =>
      LET cc == CellCmds
          perCell == photos_per_cell * photos_per_cell
      IN  /\ Len(cc) <= grid_size * grid_size - 1
          /\ \A k \in 1..Len(cc) :
                /\ cc[k].row = SweepRow(k) /\ cc[k].col = SweepCol(k)
                /\ cc[k].verb = SweepVerb(k)
                /\ cc[k].arg = grid_spacing
          /\ pc \in {"photo", "micro", "retrace"} =>
                /\ Len(cc) = SweepIndex(row, col)
                /\ row = SweepRow(Len(cc)) /\ col = SweepCol(Len(cc))
          /\ pc = "photo" => photo_count = SweepIndex(row, col) * perCell
          /\ pc = "micro" =>
                photo_count = SweepIndex(row, col) * perCell
                                + micro_i * photos_per_cell + micro_j
          /\ pc = "retrace" => photo_count = (SweepIndex(row, col) + 1) * perCell
          /\ pc \in {"home", "land"} =>
                /\ Len(cc) = grid_size * grid_size - 1
                /\ photo_count = grid_size * grid_size * perCell
          /\ (pc = "done" /\ result = "True") =>
                /\ Len(cc) = grid_size * grid_size - 1
                /\ photo_count = grid_size * grid_size * perCell

\* a 3 x 3 sweep with four photos in each cell that returned True
C33_Witness ==
    /\ IsGrid
    /\ pc = "done"
    /\ result = "True"
    /\ grid_size = 3
    /\ photos_per_cell = 2
    /\ photo_count = 36
    /\ Len(CellCmds) = 8
    /\ CellCmds[3].verb = "fly_right"
    /\ CellCmds[4].verb = "fly_backward"

----------------------------------------------------------------------------
(* Properties of the planners: the empty mission and the two trackers *)

\* C34: execute_mission on a planner with no waypoints returns False and
\* does nothing else: no command is recorded, no driver is created or
\* connected, and the pose, the flying flag and the connection state are
\* as they were, on a fresh planner and on one that has flown before.
C34_EmptyMission ==
    [][(IsPlanner /\ pc = "idle" /\ waypoints = <<>> /\ pc' # "idle") =>
          /\ pc' = "done"
          /\ result' = "False"
          /\ cmds' = cmds /\ cmds = <<>>
          /\ raised' = raised
          /\ UNCHANGED <<self_pos, self_heading, flying, has_driver,
                         simulator_mode, connected, airborne, waypoints,
                         photo_count, battery>>]_vars

\* the empty mission refused on a planner that has a driver from an
\* earlier flight
C34_Witness ==
    /\ IsPlanner
    /\ pc = "done"
    /\ waypoints = <<>>
    /\ result = "False"
    /\ cmds = <<>>
    /\ has_driver

\* between two waypoints, and before the first and after the last
AtBoundary == pc \in {"alt", "rtl"}

\* C35: at every waypoint boundary of a run on a WaypointMissionPlanner
\* the public pose equals the local pose of execute_mission.
C35_TrackerAgreement ==
    (IsWaypointPlanner /\ AtBoundary) =>
        /\ self_pos = <<current_x, current_y, current_z>>
        /\ self_heading = current_heading

----------------------------------------------------------------------------
(* Properties of the missions: takeoff before motion *)

\* the takeoff of this run was accepted by the driver
TookOff ==
    \E k \in 1..Len(cmds) : cmds[k].step = "takeoff" /\ cmds[k].ok

\* the steps of a planner run that move or turn the vehicle
MotionSteps == LoopSteps \cup {"rtl_rot", "rtl_fwd"}

\* C36: the flying flag is True only if the driver accepted takeoff, and
\* a run whose takeoff failed issues no motion or rotation command.
C36_AirborneBeforeMotion ==
    IsPlanner =>
        /\ flying => TookOff
        /\ (\E k \in 1..Len(cmds) : cmds[k].step \in MotionSteps) => TookOff

\* the same for MissionPlanner alone, which calls the driver directly
C36_DirectDriver ==
    planner = "MissionPlanner" =>
        /\ ~flying
        /\ (\E k \in 1..Len(cmds) : cmds[k].step \in MotionSteps) => TookOff

----------------------------------------------------------------------------
(* Properties of the wrapper: disconnect *)

\* disconnect called on a wrapper that is not connected makes no driver
\* call and changes nothing
IdleDisconnect ==
    [][(IsWrapper /\ last_call'.prim = "disconnect" /\ ~connected) =>
          /\ last_call'.sent = <<>>
          /\ UNCHANGED <<connected, airborne, drone, simulator_mode>>]_vars

\* C37: after disconnect has returned connected is False, on either
\* backend and whether or not the driver's teardown raised; on a wrapper
\* that is not connected disconnect makes no driver call and changes nothing.
C37_DisconnectPostcondition ==
    /\ [](IsWrapper /\ last_call.prim = "disconnect" => ~connected)
    /\ IdleDisconnect

\* what the code does: connected is False after disconnect unless the
\* teardown of the physical driver raised
C37_DisconnectUnlessRaised ==
    /\ [](IsWrapper /\ last_call.prim = "disconnect" =>
            (connected <=> \E k \in 1..Len(last_call.sent) :
                              ~last_call.sent[k].ok))
    /\ IdleDisconnect

----------------------------------------------------------------------------
(* Properties of the missions: the verbs and the driver *)

\* the motion verbs of the simulated driver and of the physical one
SimulatorVerbs ==
    {"fly_up", "fly_down", "fly_forward", "fly_backward", "fly_left",
     "fly_right", "yaw_right", "yaw_left"}
PhysicalVerbs ==
    {"move_up", "move_down", "move_forward", "move_back", "move_left",
     "move_right", "rotate_clockwise", "rotate_counter_clockwise"}

\* the verbs called so far suit the driver object, and the flag the
\* mission consults says which driver it is
VerbsSuitDriver ==
    /\ \A k \in 1..Len(cmds) :
          /\ cmds[k].verb \in SimulatorVerbs => drone = DriverClass(TRUE)
          /\ cmds[k].verb \in PhysicalVerbs => drone = DriverClass(FALSE)
    /\ drone # "none" => drone = DriverClass(simulator_mode)

\* C38: a mission or planner calls fly_ and yaw_ verbs only on the
\* simulated driver and move_ and rotate_ verbs only on the physical one,
\* and its mode flag equals the wrapper's simulator_mode.
C38_VocabularyMatchesDriver ==
    (IsGrid \/ IsWaypointPlanner) => VerbsSuitDriver

\* the same for the waypoint planner alone, which reads the wrapper's flag
C38_PlannerVocabulary == IsWaypointPlanner => VerbsSuitDriver

----------------------------------------------------------------------------
(* Properties of fast_sleep *)

IsSleep == planner = "fast_sleep"

\* the delay of a call is max(0.05, 0.25 * s) with the flag set and s
\* without it
SleepFormula(c) ==
    /\ c.fast => c.slept = Larger(FastFloor, c.arg \div 4)
    /\ ~c.fast => c.slept = c.arg

=============================================================================
